---- MODULE Spec2Model ----
(***************************************************************************)
(* A model of the deterministic discovery engine of the trade-fair         *)
(* discovery tool: the orchestrator state machine (agent/loop.ts), the     *)
(* domain guard (guards/domain.ts), the candidate selector                 *)
(* (scoring/candidates.ts) and the fetch wrappers it awaits; and of the    *)
(* two utilities under the fetch wrappers, the file cache                  *)
(* (cache/manager.ts) and the per-host rate limiter (utils/rate-limit.ts). *)
(*                                                                         *)
(* Strings are sequences of one-character strings, so that substring,      *)
(* suffix and boundary tests are computed the way the code computes them.  *)
(***************************************************************************)
EXTENDS Integers, Sequences, FiniteSets, TLC

VARIABLES
    call,       \* the arguments of the checkDomain call under examination
    verdict,    \* its result under guards/domain.ts, or NoVerdict
    verdictSeg, \* its result under the segment-boundary copy of the guard
    request,    \* the TestCaseInput of the run (known_url, fair name, limits)
    world,      \* which behaviour of the web the collaborators show
    ctx,        \* the AgentContext of runDiscovery, its output included
    pc,         \* where runDiscovery is
    clock,      \* minutes elapsed since ctx.startTime
    local,      \* the loop variables of the state handler in progress
    dateNow,    \* Date.now(), in milliseconds, for the cache and the limiter
    files,      \* the files under the cache directory
    cacheCall,  \* the CacheManager call made last, with its result
    lastRequestByHost,  \* the Map of utils/rate-limit.ts
    callers,    \* the rateLimitedWait calls: their local variables
    events,     \* the calls and returns of rateLimitedWait, in order
    scoring,    \* the scoring call made last, with its results
    extraction, \* the call of the schedule extractor, with its results
    browser,    \* the module variable browser of agent/tools/open-page.ts
    instances,  \* the browsers launched so far: open or closed
    runs,       \* the runDiscovery calls that share the module
    agent       \* the ClaudeAgent.run call: its loop variables and messages

\* the variables of the cache, of the rate limiter, of the scorer and of the
\* schedule extractor
utilVars ==
    <<dateNow, files, cacheCall, lastRequestByHost, callers, events, scoring,
      extraction, browser, instances, runs, agent>>

\* the variables of the engine and of the guard
engineVars ==
    <<call, verdict, verdictSeg, request, world, ctx, pc, clock, local>>

vars ==
    <<call, verdict, verdictSeg, request, world, ctx, pc, clock, local,
      dateNow, files, cacheCall, lastRequestByHost, callers, events, scoring,
      extraction, browser, instances, runs, agent>>

----------------------------------------------------------------------------
(* String primitives of String.prototype, on sequences of characters.       *)

UpperChars ==
    <<"A","B","C","D","E","F","G","H","I","J","K","L","M",
      "N","O","P","Q","R","S","T","U","V","W","X","Y","Z">>

LowerChars ==
    <<"a","b","c","d","e","f","g","h","i","j","k","l","m",
      "n","o","p","q","r","s","t","u","v","w","x","y","z">>

Digits ==
    {"0","1","2","3","4","5","6","7","8","9"}

\* \w of a JavaScript regular expression
WordChars ==
    {UpperChars[i] : i \in 1..26} \cup {LowerChars[i] : i \in 1..26}
        \cup Digits \cup {"_"}

toLowerChar(c) ==
    IF \E i \in 1..26 : UpperChars[i] = c
    THEN LowerChars[CHOOSE i \in 1..26 : UpperChars[i] = c]
    ELSE c

toLowerCase(s) ==
    [i \in 1..Len(s) |-> toLowerChar(s[i])]

\* p occurs in s starting at position i
startsWithAt(s, p, i) ==
    /\ i >= 1
    /\ i + Len(p) - 1 <= Len(s)
    /\ \A k \in 1..Len(p) : s[i + k - 1] = p[k]

includes(s, p) ==
    \E i \in 1..(Len(s) - Len(p) + 1) : startsWithAt(s, p, i)

endsWith(s, p) ==
    Len(p) <= Len(s) /\ startsWithAt(s, p, Len(s) - Len(p) + 1)

startsWith(s, p) ==
    startsWithAt(s, p, 1)

\* s.replace(/\s+/g, '')
removeSpaces(s) ==
    SelectSeq(s, LAMBDA c : c # " ")

\* s.split(' ')[0]
firstWordOf(s) ==
    IF \E i \in 1..Len(s) : s[i] = " "
    THEN SubSeq(s, 1, (CHOOSE i \in 1..Len(s) :
                          s[i] = " " /\ \A j \in 1..(i - 1) : s[j] # " ") - 1)
    ELSE s

\* s.slice(0, n)
sliceTo(s, n) ==
    SubSeq(s, 1, IF Len(s) < n THEN Len(s) ELSE n)

----------------------------------------------------------------------------
(* guards/domain.ts                                                         *)


WHITELISTED_DOMAINS ==
    << <<"c","l","o","u","d","f","r","o","n","t",".","n","e","t">>,
       <<"s","3",".","a","m","a","z","o","n","a","w","s",".","c","o","m">>,
       <<"b","l","o","b",".","c","o","r","e",".","w","i","n","d","o","w","s",".","n","e","t">>,
       <<"a","z","u","r","e","e","d","g","e",".","n","e","t">>,
       <<"a","k","a","m","a","i","z","e","d",".","n","e","t">>,
       <<"f","a","s","t","l","y",".","n","e","t">>,
       <<"c","l","o","u","d","f","l","a","r","e",".","c","o","m">>,
       <<"g","o","o","g","l","e","a","p","i","s",".","c","o","m">>,
       <<"c","d","n",".","j","s","d","e","l","i","v","r",".","n","e","t">> >>

THIRD_PARTY_FAIR_PLATFORMS ==
    << <<"m","a","p","y","o","u","r","s","h","o","w",".","c","o","m">>,
       <<"a","2","z",".","e","v","e","n","t","s">>,
       <<"a","2","z","i","n","c",".","n","e","t">>,
       <<"e","x","p","o","c","a","d",".","c","o","m">>,
       <<"g","e","s","e","v","e","n","t",".","c","o","m">>,
       <<"e","x","p","o","f","p",".","c","o","m">>,
       <<"e","v","e","n","t","s","c","r","i","b","e",".","c","o","m">>,
       <<"m","a","p","-","d","y","n","a","m","i","c","s",".","c","o","m">>,
       <<"s","m","a","r","t","c","i","t","y",".","c","o","m">> >>

commonTLDs ==
    << <<".","c","o",".","u","k">>,
       <<".","c","o","m",".","a","u">>,
       <<".","c","o",".","j","p">>,
       <<".","c","o","m",".","b","r">> >>

\* FOREIGN_FAIR_PATTERNS: /\b<code>\d{4}\b/i, one fair code per pattern
FOREIGN_FAIR_PATTERNS ==
    << <<"i","s","e">>,
       <<"c","e","s">>,
       <<"m","w","c">>,
       <<"i","b","c">> >>


SchemeHttps ==
    <<"h","t","t","p","s",":","/","/">>

SchemeHttp ==
    <<"h","t","t","p",":","/","/">>

DomainCheckTypes ==
    {"same-domain", "subdomain", "whitelisted-cdn", "third-party-platform",
     "foreign-fair", "external"}

DomainCheckResult(allowed, reason, type) ==
    [allowed |-> allowed, reason |-> reason, type |-> type]

\* new URL(url).hostname for an http(s) URL without port or credentials;
\* the empty string stands for "new URL throws"
hostnameOf(url) ==
    LET from == IF startsWith(url, SchemeHttps) THEN Len(SchemeHttps) + 1
                ELSE IF startsWith(url, SchemeHttp) THEN Len(SchemeHttp) + 1
                ELSE 0
        stops == {i \in from..Len(url) : url[i] \in {"/", "?", "#"}}
        to == IF stops = {} THEN Len(url)
              ELSE (CHOOSE i \in stops : \A j \in stops : i <= j) - 1
        host == SubSeq(url, from, to)
    IN  IF from = 0 \/ to < from \/ (\E i \in 1..Len(host) : host[i] = " ")
        THEN <<>>
        ELSE host

isValidUrl(url) ==
    hostnameOf(url) # <<>>

getDomain(url) ==
    toLowerCase(hostnameOf(url))

\* parts.slice(-k).join('.') of hostname.split('.')
lastParts(hostname, k) ==
    LET dots == {i \in 1..Len(hostname) : hostname[i] = "."}
    IN  IF Cardinality(dots) < k THEN hostname
        ELSE SubSeq(hostname,
                    (CHOOSE d \in dots : Cardinality({e \in dots : e >= d}) = k) + 1,
                    Len(hostname))

getBaseDomain(hostname) ==
    IF \E i \in 1..Len(hostname) : hostname[i] = "."
    THEN IF \E t \in 1..Len(commonTLDs) : endsWith(hostname, commonTLDs[t])
         THEN lastParts(hostname, 3)
         ELSE lastParts(hostname, 2)
    ELSE hostname

\* /\b<code>\d{4}\b/i.test(url)
foreignPatternTest(code, url) ==
    LET u == toLowerCase(url)
        n == Len(code)
    IN  \E i \in 1..Len(u) :
            /\ startsWithAt(u, code, i)
            /\ i + n + 3 <= Len(u)
            /\ \A k \in 0..3 : u[i + n + k] \in Digits
            /\ (i = 1 \/ u[i - 1] \notin WordChars)
            /\ (i + n + 3 = Len(u) \/ u[i + n + 4] \notin WordChars)

isSubdomainMatch(urlDomain, officialBase) ==
    \/ endsWith(urlDomain, <<".">> \o officialBase)
    \/ getBaseDomain(urlDomain) = officialBase

isWhitelistedCdn(urlDomain) ==
    \E c \in 1..Len(WHITELISTED_DOMAINS) : endsWith(urlDomain, WHITELISTED_DOMAINS[c])

isThirdPartyPlatform(urlDomain) ==
    \E p \in 1..Len(THIRD_PARTY_FAIR_PLATFORMS) :
        includes(urlDomain, THIRD_PARTY_FAIR_PLATFORMS[p])

\* the fair-name test of the third-party branch
hasFairReference(url, fairName) ==
    LET urlLower == toLowerCase(url)
        fairNameLower == removeSpaces(toLowerCase(fairName))
    IN  \/ includes(urlLower, fairNameLower)
        \/ includes(urlLower, firstWordOf(toLowerCase(fairName)))

\* the foreign-fair branch: some pattern matches and the fair's own name
\* (its first five characters) is not in the URL
isForeignFair(url, fairName) ==
    LET fairNameNormalized == removeSpaces(toLowerCase(fairName))
    IN  \E f \in 1..Len(FOREIGN_FAIR_PATTERNS) :
            /\ foreignPatternTest(FOREIGN_FAIR_PATTERNS[f], url)
            /\ ~includes(toLowerCase(url), sliceTo(fairNameNormalized, 5))

\* a guard that asks for the third-party platform before the CDN whitelist
checkDomainPlatformFirst(url, officialDomain, fairName) ==
    LET urlDomain == getDomain(url)
        officialBase == getBaseDomain(toLowerCase(officialDomain))
    IN  IF urlDomain = <<>>
        THEN DomainCheckResult(FALSE, "Invalid URL", "external")
        ELSE IF urlDomain = toLowerCase(officialDomain)
        THEN DomainCheckResult(TRUE, "Same domain", "same-domain")
        ELSE IF isSubdomainMatch(urlDomain, officialBase)
        THEN DomainCheckResult(TRUE, "Subdomain of official domain", "subdomain")
        ELSE IF isThirdPartyPlatform(urlDomain)
        THEN IF hasFairReference(url, fairName)
             THEN DomainCheckResult(TRUE, "Third-party platform with fair reference",
                                    "third-party-platform")
             ELSE DomainCheckResult(FALSE,
                                    "Third-party platform without clear fair reference",
                                    "third-party-platform")
        ELSE IF isWhitelistedCdn(urlDomain)
        THEN DomainCheckResult(TRUE, "Whitelisted CDN", "whitelisted-cdn")
        ELSE IF isForeignFair(url, fairName)
        THEN DomainCheckResult(FALSE, "Matches foreign fair pattern", "foreign-fair")
        ELSE DomainCheckResult(FALSE, "External domain", "external")

\* a guard that asks for the fair reference on every host that is neither
\* the official site nor a CDN
checkDomainNameOnAnyHost(url, officialDomain, fairName) ==
    LET urlDomain == getDomain(url)
        officialBase == getBaseDomain(toLowerCase(officialDomain))
    IN  IF urlDomain = <<>>
        THEN DomainCheckResult(FALSE, "Invalid URL", "external")
        ELSE IF urlDomain = toLowerCase(officialDomain)
        THEN DomainCheckResult(TRUE, "Same domain", "same-domain")
        ELSE IF isSubdomainMatch(urlDomain, officialBase)
        THEN DomainCheckResult(TRUE, "Subdomain of official domain", "subdomain")
        ELSE IF isWhitelistedCdn(urlDomain)
        THEN DomainCheckResult(TRUE, "Whitelisted CDN", "whitelisted-cdn")
        ELSE IF hasFairReference(url, fairName)
        THEN DomainCheckResult(TRUE, "Third-party platform with fair reference",
                               "third-party-platform")
        ELSE DomainCheckResult(FALSE,
                               "Third-party platform without clear fair reference",
                               "third-party-platform")

checkDomain(url, officialDomain, fairName) ==
    LET urlDomain == getDomain(url)
        officialBase == getBaseDomain(toLowerCase(officialDomain))
    IN  IF urlDomain = <<>>
        THEN DomainCheckResult(FALSE, "Invalid URL", "external")
        ELSE IF urlDomain = toLowerCase(officialDomain)
        THEN DomainCheckResult(TRUE, "Same domain", "same-domain")
        ELSE IF isSubdomainMatch(urlDomain, officialBase)
        THEN DomainCheckResult(TRUE, "Subdomain of official domain", "subdomain")
        ELSE IF isWhitelistedCdn(urlDomain)
        THEN DomainCheckResult(TRUE, "Whitelisted CDN", "whitelisted-cdn")
        ELSE IF isThirdPartyPlatform(urlDomain)
        THEN IF hasFairReference(url, fairName)
             THEN DomainCheckResult(TRUE, "Third-party platform with fair reference",
                                    "third-party-platform")
             ELSE DomainCheckResult(FALSE,
                                    "Third-party platform without clear fair reference",
                                    "third-party-platform")
        ELSE IF isForeignFair(url, fairName)
        THEN DomainCheckResult(FALSE, "Matches foreign fair pattern", "foreign-fair")
        ELSE DomainCheckResult(FALSE, "External domain", "external")

isLikelyPdf(url) ==
    LET lower == toLowerCase(url)
    IN  \/ endsWith(lower, <<".","p","d","f">>)
        \/ includes(lower, <<".","p","d","f","?">>)
        \/ includes(lower, <<"/","p","d","f","/">>)

----------------------------------------------------------------------------
(* The copy of the guard that matches short fair names on URL-segment       *)
(* boundaries (fairNameInUrl).                                              *)

SegmentDelimiters ==
    {".", "-", "_", "/"}

\* new RegExp(`(?:^|[.\-_/])${escaped}(?:$|[.\-_/\d])`, 'i').test(u) for short
\* words, u.includes(w) for words of five characters or more
fairNameInUrl(word, url) ==
    LET w == toLowerCase(word)
        u == toLowerCase(url)
    IN  IF Len(w) >= 5
        THEN includes(u, w)
        ELSE \E i \in 1..(Len(u) - Len(w) + 1) :
                /\ startsWithAt(u, w, i)
                /\ (i = 1 \/ u[i - 1] \in SegmentDelimiters)
                /\ (i + Len(w) - 1 = Len(u)
                      \/ u[i + Len(w)] \in SegmentDelimiters \cup Digits)

hasFairReferenceSeg(url, fairName) ==
    LET urlLower == toLowerCase(url)
        fairNameLower == removeSpaces(toLowerCase(fairName))
        firstWord == firstWordOf(toLowerCase(fairName))
    IN  \/ fairNameInUrl(fairNameLower, urlLower)
        \/ (Len(firstWord) >= 3 /\ fairNameInUrl(firstWord, urlLower))

isForeignFairSeg(url, fairName) ==
    LET fairNameNormalized == removeSpaces(toLowerCase(fairName))
        checkSlice == IF Len(fairNameNormalized) >= 5
                      THEN sliceTo(fairNameNormalized, 5)
                      ELSE fairNameNormalized
    IN  \E f \in 1..Len(FOREIGN_FAIR_PATTERNS) :
            /\ foreignPatternTest(FOREIGN_FAIR_PATTERNS[f], url)
            /\ ~fairNameInUrl(checkSlice, toLowerCase(url))

checkDomainSeg(url, officialDomain, fairName) ==
    LET urlDomain == getDomain(url)
        officialBase == getBaseDomain(toLowerCase(officialDomain))
    IN  IF urlDomain = <<>>
        THEN DomainCheckResult(FALSE, "Invalid URL", "external")
        ELSE IF urlDomain = toLowerCase(officialDomain)
        THEN DomainCheckResult(TRUE, "Same domain", "same-domain")
        ELSE IF isSubdomainMatch(urlDomain, officialBase)
        THEN DomainCheckResult(TRUE, "Subdomain of official domain", "subdomain")
        ELSE IF isWhitelistedCdn(urlDomain)
        THEN DomainCheckResult(TRUE, "Whitelisted CDN", "whitelisted-cdn")
        ELSE IF isThirdPartyPlatform(urlDomain)
        THEN IF hasFairReferenceSeg(url, fairName)
             THEN DomainCheckResult(TRUE, "Third-party platform with fair reference",
                                    "third-party-platform")
             ELSE DomainCheckResult(FALSE,
                                    "Third-party platform without clear fair reference",
                                    "third-party-platform")
        ELSE IF isForeignFairSeg(url, fairName)
        THEN DomainCheckResult(FALSE, "Matches foreign fair pattern", "foreign-fair")
        ELSE DomainCheckResult(FALSE, "External domain", "external")


----------------------------------------------------------------------------
(* schemas/output.ts                                                        *)

NULL ==
    "null"

\* a null or empty hostname
NoDomain ==
    <<>>

FIELD_NAMES ==
    <<"floorplan", "exhibitor_manual", "rules", "schedule", "exhibitor_directory">>

Fields ==
    {FIELD_NAMES[i] : i \in 1..Len(FIELD_NAMES)}

\* the keys of Documents that hold the five field URLs
DocumentKey(field) ==
    CASE field = "floorplan" -> "floorplan_url"
      [] field = "exhibitor_manual" -> "exhibitor_manual_url"
      [] field = "rules" -> "rules_url"
      [] field = "schedule" -> "schedule_page_url"
      [] field = "exhibitor_directory" -> "exhibitor_directory_url"

\* the words of EmailDraft.needed, in the order generateEmailDraft asks
NEEDED_NAMES ==
    << <<"exhibitor_manual", "manual">>, <<"rules", "rules">>,
       <<"schedule", "schedule">>, <<"floorplan", "floorplan">>,
       <<"exhibitor_directory", "directory">> >>

EmailDraft(needed, language) ==
    [needed |-> needed, language |-> language]

\* email_draft_if_missing: null
NoEmailDraft ==
    EmailDraft(<<>>, NULL)

createEmptyOutput ==
    [ official_url |-> NULL,
      official_domain |-> NoDomain,
      documents |-> [ downloads_overview_url |-> NULL,
                      floorplan_url |-> NULL,
                      exhibitor_manual_url |-> NULL,
                      rules_url |-> NULL,
                      schedule_page_url |-> NULL,
                      exhibitor_directory_url |-> NULL ],
      schedule |-> [build_up |-> <<>>, tear_down |-> <<>>],
      quality |-> [f \in Fields |-> "missing"],
      evidence |-> [f \in Fields |-> [title |-> NULL, snippet |-> NULL]],
      debug |-> [ visited_urls |-> <<>>,
                  downloaded_files |-> <<>>,
                  blocked_urls |-> <<>>,
                  candidates |-> [f \in Fields |-> <<>>] ],
      email_draft_if_missing |-> NoEmailDraft ]

----------------------------------------------------------------------------
(* The modelled web: what the collaborators (search, page open, download,   *)
(* PDF parse) can answer.  URLs are named by short identifiers; UrlText     *)
(* gives the characters the guard and the PDF tests read.  Page titles,     *)
(* link texts, snippets and PDF texts are named texts whose keyword         *)
(* content is tabulated per field, which is all that matchesField and the   *)
(* scoring functions read of them.                                          *)

\* the number of PDF links the download centre of the steady web lists
MaxPoolPdfs ==
    16

\* the number of PDF links the download centre of the flaky web lists
FlakyPoolPdfs ==
    3

PdfIds ==
    <<"p01", "p02", "p03", "p04", "p05", "p06", "p07", "p08", "p09",
      "p10", "p11", "p12", "p13", "p14", "p15", "p16", "p17">>

UrlIds ==
    {"home", "bad", "mirror", "exh", "dlc", "fp", "foreign", "ext", "plat", "p01", "p02", "p03", "p04", "p05", "p06", "p07", "p08", "p09", "p10", "p11", "p12", "p13", "p14", "p15", "p16", "p17"}

\* the text of each URL of the modelled web
UrlText(u) ==
    CASE u = "home" -> <<"h","t","t","p","s",":","/","/","w","w","w",".","i","r","e","-","e","x","p","o",".","c","o","m","/">>
      [] u = "bad" -> <<"n","o","t"," ","a"," ","u","r","l">>
      [] u = "mirror" -> <<"h","t","t","p",":","/","/","i","r","e","-","e","x","p","o",".","c","o","m","/","e","n">>
      [] u = "exh" -> <<"h","t","t","p","s",":","/","/","w","w","w",".","i","r","e","-","e","x","p","o",".","c","o","m","/","e","x","h","i","b","i","t","o","r","s">>
      [] u = "dlc" -> <<"h","t","t","p","s",":","/","/","w","w","w",".","i","r","e","-","e","x","p","o",".","c","o","m","/","d","o","w","n","l","o","a","d","s">>
      [] u = "fp" -> <<"h","t","t","p","s",":","/","/","w","w","w",".","i","r","e","-","e","x","p","o",".","c","o","m","/","h","a","l","l","e","n","p","l","a","n">>
      [] u = "foreign" -> <<"h","t","t","p","s",":","/","/","c","e","s","2","0","2","6",".","e","x","a","m","p","l","e",".","o","r","g","/","r","u","l","e","s",".","p","d","f">>
      [] u = "ext" -> <<"h","t","t","p","s",":","/","/","e","x","a","m","p","l","e",".","o","r","g","/","g","u","i","d","e",".","p","d","f">>
      [] u = "plat" -> <<"h","t","t","p","s",":","/","/","g","e","2","6","i","r","e",".","m","a","p","y","o","u","r","s","h","o","w",".","c","o","m","/","x",".","p","d","f">>
      [] u = "p01" -> <<"h","t","t","p","s",":","/","/","w","w","w",".","i","r","e","-","e","x","p","o",".","c","o","m","/","d","/","e","x","h","i","b","i","t","o","r","-","m","a","n","u","a","l","-","2","0","2","6",".","p","d","f">>
      [] u = "p02" -> <<"h","t","t","p","s",":","/","/","d","o","c","s",".","i","r","e","-","e","x","p","o",".","c","o","m","/","g","u","i","d","e","l","i","n","e","s",".","p","d","f">>
      [] u = "p03" -> <<"h","t","t","p","s",":","/","/","w","w","w",".","i","r","e","-","e","x","p","o",".","c","o","m","/","d","/","s","c","h","e","d","u","l","e",".","p","d","f">>
      [] u = "p04" -> <<"h","t","t","p","s",":","/","/","w","w","w",".","i","r","e","-","e","x","p","o",".","c","o","m","/","d","/","0","4",".","p","d","f">>
      [] u = "p05" -> <<"h","t","t","p","s",":","/","/","w","w","w",".","i","r","e","-","e","x","p","o",".","c","o","m","/","d","/","0","5",".","p","d","f">>
      [] u = "p06" -> <<"h","t","t","p","s",":","/","/","w","w","w",".","i","r","e","-","e","x","p","o",".","c","o","m","/","d","/","0","6",".","p","d","f">>
      [] u = "p07" -> <<"h","t","t","p","s",":","/","/","w","w","w",".","i","r","e","-","e","x","p","o",".","c","o","m","/","d","/","0","7",".","p","d","f">>
      [] u = "p08" -> <<"h","t","t","p","s",":","/","/","w","w","w",".","i","r","e","-","e","x","p","o",".","c","o","m","/","d","/","0","8",".","p","d","f">>
      [] u = "p09" -> <<"h","t","t","p","s",":","/","/","w","w","w",".","i","r","e","-","e","x","p","o",".","c","o","m","/","d","/","0","9",".","p","d","f">>
      [] u = "p10" -> <<"h","t","t","p","s",":","/","/","w","w","w",".","i","r","e","-","e","x","p","o",".","c","o","m","/","d","/","1","0",".","p","d","f">>
      [] u = "p11" -> <<"h","t","t","p","s",":","/","/","w","w","w",".","i","r","e","-","e","x","p","o",".","c","o","m","/","d","/","1","1",".","p","d","f">>
      [] u = "p12" -> <<"h","t","t","p","s",":","/","/","w","w","w",".","i","r","e","-","e","x","p","o",".","c","o","m","/","d","/","1","2",".","p","d","f">>
      [] u = "p13" -> <<"h","t","t","p","s",":","/","/","w","w","w",".","i","r","e","-","e","x","p","o",".","c","o","m","/","d","/","1","3",".","p","d","f">>
      [] u = "p14" -> <<"h","t","t","p","s",":","/","/","w","w","w",".","i","r","e","-","e","x","p","o",".","c","o","m","/","d","/","1","4",".","p","d","f">>
      [] u = "p15" -> <<"h","t","t","p","s",":","/","/","w","w","w",".","i","r","e","-","e","x","p","o",".","c","o","m","/","d","/","1","5",".","p","d","f">>
      [] u = "p16" -> <<"h","t","t","p","s",":","/","/","w","w","w",".","i","r","e","-","e","x","p","o",".","c","o","m","/","d","/","1","6",".","p","d","f">>
      [] u = "p17" -> <<"h","t","t","p","s",":","/","/","w","w","w",".","i","r","e","-","e","x","p","o",".","c","o","m","/","d","/","1","7",".","p","d","f">>
      [] OTHER -> <<>>

FairNameText(name) ==
    CASE name = "IRE 2026" -> <<"I","R","E"," ","2","0","2","6">>
      [] OTHER -> <<>>

\* post-redirect URL a successful network open of u ends at (page.url())
FinalUrl(u) ==
    IF u = "mirror" THEN "home" ELSE u

TextKeys ==
    Fields \cup {"downloads"}

NoKeywords ==
    [f \in TextKeys |-> 0]

Text(kw, occ, flags) ==
    [kw |-> kw, occ |-> occ, flags |-> flags]

\* kw:  how many of FIELD_KEYWORDS[field] the text includes
\* occ: how many keyword occurrences of the field it holds
\* flags: "year" (current or next year), "date", "time", "buildup",
\*        "teardown" (the schedule patterns), "empty" (the empty string),
\*        "fair" (includes the first word of the fair name),
\*        "exhibitor", "download" (the keywords of findHighValueLinks)
TextOf(t) ==
    CASE t = "t_empty" -> Text(NoKeywords, NoKeywords, {"empty"})
      [] t = "t_home_title" -> Text(NoKeywords, NoKeywords, {"fair", "year"})
      [] t = "t_other_title" -> Text(NoKeywords, NoKeywords, {})
      [] t = "t_exhibitors" ->
            Text([NoKeywords EXCEPT !["exhibitor_directory"] = 1],
                 [NoKeywords EXCEPT !["exhibitor_directory"] = 1], {"exhibitor"})
      [] t = "t_downloads" ->
            Text([NoKeywords EXCEPT !["downloads"] = 2],
                 [NoKeywords EXCEPT !["downloads"] = 2], {"download"})
      [] t = "t_manual" ->
            Text([NoKeywords EXCEPT !["exhibitor_manual"] = 1],
                 [NoKeywords EXCEPT !["exhibitor_manual"] = 1], {"year", "exhibitor"})
      [] t = "t_manual_handbook" ->
            Text([NoKeywords EXCEPT !["exhibitor_manual"] = 2],
                 [NoKeywords EXCEPT !["exhibitor_manual"] = 2], {"exhibitor"})
      [] t = "t_manual_snippet" ->
            Text([NoKeywords EXCEPT !["exhibitor_manual"] = 2],
                 [NoKeywords EXCEPT !["exhibitor_manual"] = 3], {"year", "exhibitor"})
      [] t = "t_hallplan" ->
            Text([NoKeywords EXCEPT !["floorplan"] = 1],
                 [NoKeywords EXCEPT !["floorplan"] = 1], {})
      [] t = "t_guidelines" ->
            Text([NoKeywords EXCEPT !["rules"] = 2],
                 [NoKeywords EXCEPT !["rules"] = 2], {})
      [] t = "t_guidelines_file" ->
            Text([NoKeywords EXCEPT !["rules"] = 1],
                 [NoKeywords EXCEPT !["rules"] = 1], {})
      [] t = "t_schedule" ->
            Text([NoKeywords EXCEPT !["schedule"] = 1],
                 [NoKeywords EXCEPT !["schedule"] = 1], {})
      [] t = "x_manual" ->
            Text([NoKeywords EXCEPT !["exhibitor_manual"] = 2, !["schedule"] = 1],
                 [NoKeywords EXCEPT !["exhibitor_manual"] = 3, !["schedule"] = 1],
                 {"year", "date", "time", "buildup", "exhibitor"})
      [] t = "x_rules" ->
            Text([NoKeywords EXCEPT !["rules"] = 2],
                 [NoKeywords EXCEPT !["rules"] = 3], {"year"})
      [] t = "x_schedule" ->
            Text([NoKeywords EXCEPT !["schedule"] = 2],
                 [NoKeywords EXCEPT !["schedule"] = 2],
                 {"date", "buildup", "teardown"})
      [] t = "x_buildup_context" ->
            Text([NoKeywords EXCEPT !["schedule"] = 1],
                 [NoKeywords EXCEPT !["schedule"] = 1],
                 {"year", "date", "time", "buildup"})
      [] t = "x_teardown_context" ->
            Text([NoKeywords EXCEPT !["schedule"] = 1],
                 [NoKeywords EXCEPT !["schedule"] = 1], {"teardown"})
      [] t = "t_manual_pdf" ->
            Text([NoKeywords EXCEPT !["exhibitor_manual"] = 1, !["schedule"] = 2],
                 [NoKeywords EXCEPT !["exhibitor_manual"] = 1, !["schedule"] = 2],
                 {"year", "buildup", "teardown", "exhibitor"})
      [] OTHER -> Text(NoKeywords, NoKeywords, {})

\* how many of FIELD_KEYWORDS[field] the URL matches (scoreUrlForField's
\* regular expressions, matchesField's includes)
UrlKeywords(u, field) ==
    CASE u = "p01" /\ field = "exhibitor_manual" -> 1
      [] u = "p02" /\ field = "rules" -> 1
      [] u = "p03" /\ field = "schedule" -> 1
      [] u = "foreign" /\ field = "rules" -> 1
      [] u = "fp" /\ field = "floorplan" -> 1
      [] u = "dlc" /\ field = "downloads" -> 2
      [] u = "exh" /\ field = "exhibitor_directory" -> 1
      [] OTHER -> 0

\* the current or next year occurs in the URL
UrlHasYear(u) ==
    u = "p01"

Link(href, text, context) ==
    [href |-> href, text |-> text, context |-> context]

\* the PDF links the download centre lists: many on the steady web, where
\* every fetch succeeds, a few on the flaky web, where any fetch may fail
poolSize ==
    IF world.kind = "steady" THEN MaxPoolPdfs ELSE FlakyPoolPdfs

\* extracted.links of a successfully opened page
PageLinks(u) ==
    CASE u = "home" ->
            << Link("exh", "t_exhibitors", "t_exhibitors"),
               Link("dlc", "t_downloads", "t_empty"),
               Link("fp", "t_hallplan", "t_hallplan"),
               Link("p01", "t_manual", "t_manual"),
               Link("plat", "t_manual", "t_manual"),
               Link("foreign", "t_guidelines", "t_guidelines") >>
      [] u = "exh" ->
            << Link("p02", "t_guidelines", "t_empty"),
               Link("ext", "t_manual_handbook", "t_manual_snippet"),
               Link("home", "t_other_title", "t_empty") >>
      [] u = "dlc" ->
            [i \in 1..poolSize |->
                Link(PdfIds[i],
                     CASE i = 1 -> "t_manual_handbook"
                       [] i = 2 -> "t_guidelines"
                       [] i = 3 -> "t_schedule"
                       [] OTHER -> "t_other_title",
                     IF i = 3 THEN "x_schedule" ELSE "t_empty")]
      [] OTHER -> <<>>

\* extracted.title of a successfully opened page
PageTitle(u) ==
    IF u \in {"home", "mirror"} /\ world.titleOk THEN "t_home_title" ELSE "t_other_title"

SearchResult(url, title, snippet) ==
    [url |-> url, title |-> title, snippet |-> snippet]

\* what the search engine lists for each query of generateSearchQueries
SearchIndex(kind, n) ==
    CASE kind = "official" /\ n = 1 ->
            << SearchResult("ext", "t_other_title", "t_empty"),
               SearchResult("home", "t_home_title", "t_empty"),
               SearchResult("mirror", "t_home_title", "t_empty") >>
      [] kind = "official" /\ n = 2 ->
            << SearchResult("mirror", "t_home_title", "t_empty"),
               SearchResult("exh", "t_home_title", "t_exhibitors") >>
      [] kind = "manual" /\ n = 1 ->
            << SearchResult("p01", "t_manual_handbook", "t_manual_snippet"),
               SearchResult("foreign", "t_guidelines", "t_guidelines") >>
      [] kind = "downloads" /\ n = 1 ->
            << SearchResult("dlc", "t_downloads", "t_manual") >>
      [] kind = "floorplan" /\ n = 1 ->
            << SearchResult("fp", "t_hallplan", "t_hallplan"),
               SearchResult("plat", "t_hallplan", "t_empty") >>
      [] kind = "directory" /\ n = 2 ->
            << SearchResult("exh", "t_exhibitors", "t_exhibitors") >>
      [] OTHER -> <<>>

ScheduleEntry(date, time) ==
    [date |-> date, time |-> time]

\* file.url.split('/').pop(), the title of a PDF without metadata title
FileNameText(u) ==
    IF u = "p02" THEN "t_guidelines_file" ELSE "t_other_title"

\* a parsed PDF: its text, its metadata title, and what
\* extractScheduleFromText finds in the text
PdfContent(u) ==
    CASE u = "p01" ->
            [ text |-> "x_manual", title |-> "t_manual_pdf",
              build_up |-> << ScheduleEntry("2026-01-29", "08:00") >>,
              tear_down |-> << ScheduleEntry(NULL, "17:00") >>,
              rawContext |-> "x_buildup_context" ]
      [] u = "p02" ->
            [ text |-> "x_rules", title |-> NULL,
              build_up |-> <<>>, tear_down |-> <<>>, rawContext |-> "t_empty" ]
      [] u = "p03" ->
            [ text |-> "x_schedule", title |-> "t_schedule",
              build_up |-> << ScheduleEntry(NULL, NULL) >>,
              tear_down |-> << ScheduleEntry(NULL, "18:00") >>,
              rawContext |-> "x_teardown_context" ]
      [] OTHER ->
            [ text |-> "t_other_title", title |-> NULL,
              build_up |-> <<>>, tear_down |-> <<>>, rawContext |-> "t_empty" ]


\* 0-based start of the last occurrence of the current or next year in a
\* text, -1 if there is none
TextYearAt(t) ==
    CASE t = "t_home_title" -> 9
      [] t = "t_manual" -> 17
      [] t = "t_manual_pdf" -> 52
      [] t = "t_manual_snippet" -> 80
      [] t = "x_manual" -> 120
      [] t = "x_rules" -> 60
      [] t = "x_buildup_context" -> 30
      [] OTHER -> -1

CurrentYear ==
    <<"2","0","2","6">>

NextYear ==
    <<"2","0","2","7">>

hasFlag(t, flag) ==
    t # NULL /\ flag \in TextOf(t).flags

\* a string the code treats as present: neither undefined nor ''
isTruthy(t) ==
    t # NULL /\ ~hasFlag(t, "empty")

Min(a, b) ==
    IF a < b THEN a ELSE b

----------------------------------------------------------------------------
(* utils/text-extract.ts                                                    *)

\* matchesField(text, field)
matchesField(t, field) ==
    t # NULL /\ TextOf(t).kw[field] > 0

\* matchesField(link.text + ' ' + link.href, field)
matchesLink(link, field) ==
    matchesField(link.text, field) \/ UrlKeywords(link.href, field) > 0

----------------------------------------------------------------------------
(* scoring/candidates.ts                                                    *)

STRONG_THRESHOLD ==
    70

WEAK_THRESHOLD ==
    40

WEIGHTS ==
    [urlMatch |-> 20, titleMatch |-> 30, contentMatch |-> 40, freshness |-> 10]

scoreUrlForField(url, field) ==
    LET keywordScore == 10 * UrlKeywords(url, field)
        pdfBonus == IF /\ field \in {"exhibitor_manual", "rules"}
                       /\ endsWith(toLowerCase(UrlText(url)), <<".","p","d","f">>)
                    THEN 10 ELSE 0
    IN  Min(keywordScore + pdfBonus, WEIGHTS.urlMatch)

scoreTitleForField(title, field) ==
    IF ~isTruthy(title) THEN 0
    ELSE Min(15 * TextOf(title).kw[field], WEIGHTS.titleMatch)

scoreContentForField(content, field) ==
    IF ~isTruthy(content) THEN 0
    ELSE LET matchCount == TextOf(content).occ[field]
             base == IF matchCount >= 3 THEN 20
                     ELSE IF matchCount >= 1 THEN 10 ELSE 0
             bonus(flag) == IF hasFlag(content, flag) THEN 10 ELSE 0
             schedule == IF field = "schedule"
                         THEN bonus("date") + bonus("time")
                                + bonus("buildup") + bonus("teardown")
                         ELSE 0
         IN  Min(base + schedule, WEIGHTS.contentMatch)

\* lastIndex of the shared /(year|year+1)/g after yearPattern.test(url):
\* the end of the first match, 0 when the URL holds no year
yearLastIndex(url) ==
    LET u == UrlText(url)
        hits == {i \in 1..Len(u) :
                    startsWithAt(u, CurrentYear, i) \/ startsWithAt(u, NextYear, i)}
    IN  IF hits = {} THEN 0
        ELSE (CHOOSE i \in hits : \A j \in hits : i <= j) + 3

\* the second yearPattern.test resumes at the lastIndex the first one left
scoreFreshness(url, content) ==
    LET lastIndex == yearLastIndex(url)
        urlScore == IF lastIndex > 0 THEN 5 ELSE 0
        contentScore == IF isTruthy(content) /\ TextYearAt(content) >= lastIndex
                        THEN 5 ELSE 0
    IN  Min(urlScore + contentScore, WEIGHTS.freshness)

ScoredCandidate(url, score, title, contentSnippet, source) ==
    [ url |-> url, score |-> score, title |-> title,
      contentSnippet |-> contentSnippet, source |-> source ]

scoreCandidate(url, title, contentSnippet, source, field) ==
    ScoredCandidate(url,
                    scoreUrlForField(url, field) + scoreTitleForField(title, field)
                        + scoreContentForField(contentSnippet, field)
                        + scoreFreshness(url, contentSnippet),
                    title, contentSnippet, source)

\* Array.prototype.sort((a, b) => b.score - a.score): stable, descending
\* an element lands behind the elements with a greater score and behind the
\* earlier elements with an equal one
sortByScore(s) ==
    LET ahead(i) == Cardinality({j \in 1..Len(s) :
                        \/ s[j].score > s[i].score
                        \/ s[j].score = s[i].score /\ j < i})
    IN  [k \in 1..Len(s) |-> s[CHOOSE i \in 1..Len(s) : ahead(i) = k - 1]]

\* a ranking that keeps the order of the list
rankCandidatesUnsorted(candidates) ==
    sliceTo(candidates, 3)

rankCandidates(candidates) ==
    sliceTo(sortByScore(candidates), 3)

SelectionResult(url, quality, evidence) ==
    [url |-> url, quality |-> quality, evidence |-> evidence]

qualityOf(best) ==
    IF best.score >= STRONG_THRESHOLD /\ isTruthy(best.contentSnippet) THEN "strong"
    ELSE IF best.score >= WEAK_THRESHOLD THEN "weak"
    ELSE "missing"

\* a selector that keeps the URL of a candidate below the weak threshold
selectBestKeepsUrl(candidates) ==
    IF Len(candidates) = 0
    THEN SelectionResult(NULL, "missing", [title |-> NULL, snippet |-> NULL])
    ELSE LET best == rankCandidates(candidates)[1]
         IN  SelectionResult(best.url, qualityOf(best),
                             [title |-> best.title, snippet |-> best.contentSnippet])

selectBest(candidates) ==
    IF Len(candidates) = 0
    THEN SelectionResult(NULL, "missing", [title |-> NULL, snippet |-> NULL])
    ELSE LET best == rankCandidates(candidates)[1]
             quality == qualityOf(best)
             snippet == IF isTruthy(best.contentSnippet)
                        THEN best.contentSnippet ELSE NULL
         IN  SelectionResult(IF quality # "missing" THEN best.url ELSE NULL,
                             quality,
                             [title |-> best.title, snippet |-> snippet])

toOutputCandidates(scored) ==
    [i \in 1..Len(scored) |-> [url |-> scored[i].url, score |-> scored[i].score]]


----------------------------------------------------------------------------
(* agent/tools/open-page.ts, web-search.ts, download-file.ts, parse-pdf.ts  *)
(* as the orchestrator sees them: the set of results a call can give.       *)

\* minutes a slow network operation takes
SlowOperation ==
    11

\* MAX_RUNTIME_MS, in minutes
MAX_RUNTIME_MIN ==
    10

\* the clock after an awaited operation: it took no noticeable time, or it
\* was slow; past the runtime limit the exact time no longer matters
Tick ==
    IF clock > MAX_RUNTIME_MIN THEN {clock} ELSE {clock, clock + SlowOperation}

Thrown ==
    [throws |-> TRUE]

\* an openPage that cannot fail
openPageAlwaysOpens(url) ==
    {[throws |-> FALSE, success |-> TRUE, finalUrl |-> FinalUrl(url),
      status |-> 200, extracted |-> TRUE, fromCache |-> FALSE]}

\* cache.getCachedPage(url) and rateLimitedWait(url) run new URL(url) before
\* the try block, so an unparsable URL makes openPage reject; otherwise the
\* page is served from the cache, where an earlier run may have left it
\* (finalUrl: url), or it opens from the network (finalUrl: page.url()),
\* answers with an HTTP error status, or the browser fails (status 0)
openPage(url) ==
    IF ~isValidUrl(UrlText(url)) THEN {Thrown}
    ELSE (IF world.kind # "offline"
          THEN {[throws |-> FALSE, success |-> TRUE, finalUrl |-> url,
                 status |-> 200, extracted |-> TRUE, fromCache |-> TRUE],
                [throws |-> FALSE, success |-> TRUE, finalUrl |-> FinalUrl(url),
                 status |-> 200, extracted |-> TRUE, fromCache |-> FALSE]}
          ELSE {})
         \cup (IF world.kind \in {"flaky", "offline"}
               THEN {[throws |-> FALSE, success |-> FALSE, finalUrl |-> url,
                      status |-> s, extracted |-> FALSE, fromCache |-> FALSE] :
                        s \in {0, 403}}
               ELSE {})

\* webSearch never rejects: a failed search is an empty result list
webSearch(kind, n, maxResults) ==
    IF world.searchUp THEN sliceTo(SearchIndex(kind, n), maxResults) ELSE <<>>

\* cache.hasValidDownloadCache(url) parses the URL before the try block
downloadFile(url) ==
    IF ~isValidUrl(UrlText(url)) THEN {Thrown}
    ELSE {[throws |-> FALSE, success |-> TRUE, url |-> url,
           isPdfPath |-> endsWith(toLowerCase(UrlText(url)), <<".","p","d","f">>)]}
         \cup (IF world.kind = "flaky"
               THEN {[throws |-> FALSE, success |-> FALSE, url |-> url,
                      isPdfPath |-> FALSE]}
               ELSE {})

\* parsePdf catches every error of the decoder
parsePdf(file) ==
    {[success |-> TRUE, content |-> PdfContent(file.url)]}
        \cup (IF world.kind = "flaky"
              THEN {[success |-> FALSE, content |-> PdfContent("none")]}
              ELSE {})

\* hasScheduleInfo(parsed.text)
hasScheduleInfo(t) ==
    (hasFlag(t, "buildup") \/ hasFlag(t, "teardown")) /\ hasFlag(t, "date")

\* findHighValueLinks: exhibitorKeywords
exhibitorKeywords ==
    << <<"e","x","h","i","b","i","t","o","r">>,
       <<"a","u","s","s","t","e","l","l","e","r">>,
       <<"f","o","r"," ","e","x","h","i","b","i","t","o","r","s">>,
       <<"s","e","r","v","i","c","e","s">>,
       <<"t","e","i","l","n","e","h","m","e","r">> >>

\* findHighValueLinks: downloadKeywords
downloadKeywords ==
    << <<"d","o","w","n","l","o","a","d">>,
       <<"d","o","c","u","m","e","n","t","s">>,
       <<"d","o","k","u","m","e","n","t","e">>,
       <<"m","a","t","e","r","i","a","l","i","e","n">>,
       <<"f","i","l","e","s">>,
       <<"r","e","s","o","u","r","c","e","s">> >>

\* /manual|handbook|guide/i
ManualPattern ==
    << <<"m","a","n","u","a","l">>,
       <<"h","a","n","d","b","o","o","k">>,
       <<"g","u","i","d","e">> >>

\* /regulation|guideline|rule/i
RegulationPattern ==
    << <<"r","e","g","u","l","a","t","i","o","n">>,
       <<"g","u","i","d","e","l","i","n","e">>,
       <<"r","u","l","e">> >>

\* /exhibitor|aussteller/i
ExhibitorPattern ==
    << <<"e","x","h","i","b","i","t","o","r">>,
       <<"a","u","s","s","t","e","l","l","e","r">> >>

\* /floor|plan|hall/i
FloorPattern ==
    << <<"f","l","o","o","r">>,
       <<"p","l","a","n">>,
       <<"h","a","l","l">> >>

\* /schedule|time|datum/i
SchedulePattern ==
    << <<"s","c","h","e","d","u","l","e">>,
       <<"t","i","m","e">>,
       <<"d","a","t","u","m">> >>

\* keywords.some(kw => s.includes(kw)), and RegExp alternation
includesAny(s, keywords) ==
    \E k \in 1..Len(keywords) : includes(s, keywords[k])

\* [...new Set(list)]: the first occurrence of each element, in list order
unique(list) ==
    LET first == {i \in 1..Len(list) : \A j \in 1..(i - 1) : list[j] # list[i]}
        earlier(i) == Cardinality({j \in first : j < i})
    IN  [k \in 1..Cardinality(first) |->
            list[CHOOSE i \in first : earlier(i) = k - 1]]

contains(list, x) ==
    \E i \in 1..Len(list) : list[i] = x

\* findHighValueLinks(extracted, officialDomain)
findHighValueLinks(links, officialDomain) ==
    LET onDomain(l) ==
            LET linkDomain == getDomain(UrlText(l.href))
            IN  /\ linkDomain # <<>>
                /\ \/ linkDomain = officialDomain
                   \/ endsWith(linkDomain, <<".">> \o officialDomain)
        lowerHref(l) == toLowerCase(UrlText(l.href))
        own == SelectSeq(links, onDomain)
        isPdf(l) == endsWith(lowerHref(l), <<".","p","d","f">>)
        isExhibitor(l) ==
            hasFlag(l.text, "exhibitor") \/ includesAny(lowerHref(l), exhibitorKeywords)
        isDownload(l) ==
            hasFlag(l.text, "download") \/ includesAny(lowerHref(l), downloadKeywords)
        hrefs(ls) == [i \in 1..Len(ls) |-> ls[i].href]
    IN  [ exhibitorLinks |-> hrefs(SelectSeq(own, isExhibitor)),
          downloadLinks |-> hrefs(SelectSeq(own, isDownload)),
          pdfLinks |-> hrefs(SelectSeq(own, isPdf)) ]


----------------------------------------------------------------------------
(* agent/loop.ts: the orchestrator                                          *)

MAX_PAGE_OPENS ==
    30

\* a download limit as large as the biggest PDF pool, that is no limit
NoDownloadLimit ==
    MaxPoolPdfs

MAX_DOWNLOADS ==
    15

AgentStates ==
    <<"SEARCH", "ENTRY", "DOWNLOADS", "PDF_PARSE", "SELECT", "DONE">>

\* the position of a state in the linear order of the machine
stateIndex(s) ==
    CHOOSE i \in 1..Len(AgentStates) : AgentStates[i] = s

\* the AgentContext runDiscovery starts from
initialContext ==
    [ state |-> "SEARCH",
      pageOpens |-> 0,
      downloads |-> 0,
      officialUrl |-> NULL,
      officialDomain |-> NoDomain,
      entryPages |-> <<>>,
      downloadCenterUrl |-> NULL,
      pdfUrls |-> <<>>,
      candidates |-> [f \in Fields |-> <<>>],
      blockedUrls |-> <<>>,
      output |-> createEmptyOutput ]

\* what a state handler keeps of the result of its latest openPage call
OpenResult(url, result) ==
    [url |-> url, success |-> result.success, status |-> result.status,
     finalUrl |-> result.finalUrl]

NoOpenResult ==
    [url |-> NULL, success |-> TRUE, status |-> 0, finalUrl |-> NULL]

\* the loop variables of the state handlers, and the result of the latest
\* openPage call of the handler
noLocal ==
    [q |-> 1, i |-> 0, results |-> <<>>, list |-> <<>>, result |-> NoOpenResult]

isOverLimit(c) ==
    \/ clock > MAX_RUNTIME_MIN
    \/ c.pageOpens >= request.maxPageOpens
    \/ c.downloads >= MAX_DOWNLOADS

BlockedUrl(url, status, reason) ==
    [url |-> url, status |-> status, reason |-> reason]

\* ctx.pageOpens++; visited_urls.push(url)
visit(c, url) ==
    [c EXCEPT !.pageOpens = @ + 1,
              !.output.debug.visited_urls = Append(@, url)]

\* a visited test that never finds the URL
visitedNever(c, url) ==
    FALSE

visited(c, url) ==
    contains(c.output.debug.visited_urls, url)

\* a guard that allows every URL
guardAllowsAll(c, url) ==
    DomainCheckResult(TRUE, "Same domain as official", "same-domain")

guard(c, url) ==
    checkDomain(UrlText(url), c.officialDomain, FairNameText(request.fair_name))

\* the official site is resolved from a successfully opened page
adoptOfficial(c, result, withLinks) ==
    LET domain == getDomain(UrlText(result.finalUrl))
        c1 == [c EXCEPT !.officialUrl = result.finalUrl,
                        !.officialDomain = domain,
                        !.output.official_url = result.finalUrl,
                        !.output.official_domain = domain,
                        !.entryPages = Append(@, result.finalUrl)]
        links == findHighValueLinks(PageLinks(result.finalUrl), domain)
    IN  IF ~withLinks THEN c1
        ELSE [c1 EXCEPT !.entryPages = @ \o sliceTo(links.exhibitorLinks, 5),
                        !.pdfUrls = @ \o sliceTo(links.pdfLinks, 5),
                        !.downloadCenterUrl =
                            IF Len(links.downloadLinks) > 0
                            THEN links.downloadLinks[1] ELSE @]


\* the result loop of a resource search: guard, score, collect PDFs
RECURSIVE scoreResults(_, _, _, _)
scoreResults(c, results, i, field) ==
    IF i > Len(results) THEN c
    ELSE LET result == results[i]
             domainCheck == guard(c, result.url)
             candidate == scoreCandidate(result.url, result.title, result.snippet,
                                         "link", field)
             next ==
                IF ~domainCheck.allowed
                THEN IF domainCheck.type = "foreign-fair"
                     THEN [c EXCEPT !.blockedUrls =
                              Append(@, BlockedUrl(result.url, NULL, domainCheck.reason))]
                     ELSE c
                ELSE [c EXCEPT !.candidates[field] = Append(@, candidate),
                               !.pdfUrls = IF isLikelyPdf(UrlText(result.url))
                                           THEN Append(@, result.url) ELSE @]
         IN  scoreResults(next, results, i + 1, field)

\* { queries, field } of searchTerms, two queries each
searchTerms ==
    << [kind |-> "manual", field |-> "exhibitor_manual"],
       [kind |-> "downloads", field |-> "exhibitor_manual"],
       [kind |-> "floorplan", field |-> "floorplan"],
       [kind |-> "directory", field |-> "exhibitor_directory"] >>

\* the lists of a sequence of lists, one after the other
RECURSIVE flatten(_, _)
flatten(lists, i) ==
    IF i > Len(lists) THEN <<>>
    ELSE lists[i] \o flatten(lists, i + 1)

\* what one link of an entry page pushes onto ctx.candidates[field]: the
\* detected directory or floorplan, then the PDF scored by its link text
entryLinkCandidates(link, field) ==
    LET candidate == scoreCandidate(link.href, link.text, link.context, "link", field)
        detected == /\ field \in {"exhibitor_directory", "floorplan"}
                    /\ matchesLink(link, field)
        pdfScored == /\ isLikelyPdf(UrlText(link.href))
                     /\ field # "schedule"
                     /\ matchesLink(link, field)
    IN  (IF detected THEN <<candidate>> ELSE <<>>)
          \o (IF pdfScored THEN <<candidate>> ELSE <<>>)

\* the link loop of runEntryState. The loop only appends to lists and sets
\* the download centre once, and the guard reads nothing the loop writes:
\* each list is the old list followed by what the allowed links push, in
\* link order
entryLinks(c, links) ==
    LET allowed == SelectSeq(links, LAMBDA link : guard(c, link.href).allowed)
        centres == SelectSeq(allowed, LAMBDA link : matchesLink(link, "downloads"))
        pdfs == SelectSeq(allowed, LAMBDA link : isLikelyPdf(UrlText(link.href)))
        found == c.downloadCenterUrl = NULL /\ Len(centres) > 0
    IN  [c EXCEPT
           !.downloadCenterUrl = IF found THEN centres[1].href ELSE @,
           !.output.documents.downloads_overview_url =
               IF found THEN centres[1].href ELSE @,
           !.candidates =
               [f \in Fields |->
                  @[f] \o flatten([k \in 1..Len(allowed) |->
                                     entryLinkCandidates(allowed[k], f)], 1)],
           !.pdfUrls = @ \o [k \in 1..Len(pdfs) |-> pdfs[k].href]]

\* the link loop of the download centre: every allowed PDF link is
\* collected, and scored for each field its link text matches
downloadCenterLinks(c, links) ==
    LET pdfs == SelectSeq(links, LAMBDA link :
                    isLikelyPdf(UrlText(link.href)) /\ guard(c, link.href).allowed)
        scored(f) == SelectSeq(pdfs, LAMBDA link : matchesField(link.text, f))
    IN  [c EXCEPT
           !.pdfUrls = @ \o [k \in 1..Len(pdfs) |-> pdfs[k].href],
           !.candidates =
               [f \in Fields |->
                  @[f] \o [k \in 1..Len(scored(f)) |->
                             scoreCandidate(scored(f)[k].href, scored(f)[k].text,
                                            scored(f)[k].context, "link", f)]]]

\* the keyword part of a PDF's download priority
keywordPriority(url) ==
    LET urlLower == toLowerCase(UrlText(url))
        bonus(pattern, points) == IF includesAny(urlLower, pattern) THEN points ELSE 0
    IN  bonus(ManualPattern, 50) + bonus(RegulationPattern, 40)
          + bonus(ExhibitorPattern, 30) + bonus(FloorPattern, 25)
          + bonus(SchedulePattern, 20)

\* a sort that leaves the list as it is
sortByPriorityKeepsOrder(s) ==
    s

\* scored.sort((a, b) => b.priority - a.priority): stable, descending
\* an element lands behind the elements with a greater priority and behind
\* the earlier elements with an equal one
sortByPriority(s) ==
    LET ahead(i) == Cardinality({j \in 1..Len(s) :
                        \/ s[j].priority > s[i].priority
                        \/ s[j].priority = s[i].priority /\ j < i})
    IN  [k \in 1..Len(s) |-> s[CHOOSE i \in 1..Len(s) : ahead(i) = k - 1]]

prioritizePdfs(urls, candidates) ==
    LET isCandidate(u) == \E f \in Fields : \E i \in 1..Len(candidates[f]) :
                              candidates[f][i].url = u
        scored == [i \in 1..Len(urls) |->
                     [url |-> urls[i],
                      priority |-> (IF isCandidate(urls[i]) THEN 100 ELSE 0)
                                     + keywordPriority(urls[i])]]
        sorted == sliceTo(sortByPriority(scored), MAX_DOWNLOADS)
    IN  [i \in 1..Len(sorted) |-> sorted[i].url]

\* the merge of one direction of a PDF's schedule into the output
RECURSIVE mergeEntries(_, _, _)
mergeEntries(existing, entries, i) ==
    IF i > Len(entries) THEN existing
    ELSE mergeEntries(
            IF \E k \in 1..Len(existing) :
                  existing[k].date = entries[i].date /\ existing[k].time = entries[i].time
            THEN existing ELSE Append(existing, entries[i]),
            entries, i + 1)

\* the candidates a parsed PDF contributes, field by field
RECURSIVE scorePdfContent(_, _, _, _)
scorePdfContent(c, file, content, i) ==
    IF i > Len(FIELD_NAMES) THEN c
    ELSE LET field == FIELD_NAMES[i]
             title == IF content.title # NULL THEN content.title
                      ELSE FileNameText(file.url)
             candidate == scoreCandidate(file.url, title, content.text, "pdf", field)
             next == IF TextOf(content.text).kw[field] > 0
                     THEN [c EXCEPT !.candidates[field] =
                              Append(@, [candidate EXCEPT !.score = @ + 20])]
                     ELSE c
         IN  scorePdfContent(next, file, content, i + 1)

\* the body of the file loop of runPdfParseState for a parsed PDF
parsedPdf(c, file, content) ==
    LET c1 == scorePdfContent(c, file, content, 1)
        title == IF content.title # NULL THEN content.title ELSE "t_schedule"
        candidate == scoreCandidate(file.url, title, content.rawContext, "pdf",
                                    "schedule")
    IN  IF hasScheduleInfo(content.text)
        THEN [c1 EXCEPT
                !.output.schedule.build_up = mergeEntries(@, content.build_up, 1),
                !.output.schedule.tear_down = mergeEntries(@, content.tear_down, 1),
                !.candidates["schedule"] =
                    Append(@, [candidate EXCEPT !.score = @ + 30])]
        ELSE c1

hasEntries(output) ==
    Len(output.schedule.build_up) > 0 \/ Len(output.schedule.tear_down) > 0

\* the field loop of runSelectState
RECURSIVE selectFields(_, _)
selectFields(c, i) ==
    IF i > Len(FIELD_NAMES) THEN c
    ELSE LET field == FIELD_NAMES[i]
             result == selectBest(c.candidates[field])
             sorted == sortByScore(c.candidates[field])
             keepUrl == field = "schedule" /\ hasEntries(c.output)
             next == [c EXCEPT
                        !.output.documents[DocumentKey(field)] =
                            IF keepUrl THEN @ ELSE result.url,
                        !.output.quality[field] = result.quality,
                        !.output.evidence[field] = result.evidence,
                        !.candidates[field] = sorted,
                        !.output.debug.candidates[field] =
                            toOutputCandidates(sliceTo(sorted, 3))]
         IN  selectFields(next, i + 1)

\* a SELECT that leaves the schedule quality as the selector judged it
scheduleQualityOfSelector(c) ==
    c

\* the schedule quality is recomputed from the merged entries
scheduleQuality(c) ==
    LET dated(entries) == \E k \in 1..Len(entries) : entries[k].date # NULL
        hasDates == dated(c.output.schedule.build_up)
                      \/ dated(c.output.schedule.tear_down)
    IN  IF hasEntries(c.output)
        THEN [c EXCEPT !.output.quality["schedule"] =
                          IF hasDates THEN "strong" ELSE "weak"]
        ELSE c

\* a SELECT handler that forgets to move to DONE
runSelectStateStays(c) ==
    scheduleQuality(selectFields(c, 1))

\* a SELECT handler that sends the machine back to ENTRY
runSelectStateBack(c) ==
    [scheduleQuality(selectFields(c, 1)) EXCEPT !.state = "ENTRY"]

runSelectState(c) ==
    [scheduleQuality(selectFields(c, 1)) EXCEPT !.state = "DONE"]


----------------------------------------------------------------------------
(* generateEmailDraft                                                       *)

\* a draft that is never written
generateEmailDraftNever(out) ==
    NoEmailDraft

\* the needed words: one per field of quality missing, in the fixed order;
\* no word needed gives null.  The requests examined name no country, so
\* that the draft is the English one
generateEmailDraft(out) ==
    LET needed == SelectSeq(NEEDED_NAMES, LAMBDA n : out.quality[n[1]] = "missing")
    IN  IF Len(needed) = 0
        THEN NoEmailDraft
        ELSE EmailDraft([k \in 1..Len(needed) |-> needed[k][2]], "English")

----------------------------------------------------------------------------
(* scoring/candidates.ts on the text of a URL: scoreUrlForField computed    *)
(* from the characters, and the inputs selectBest is examined with          *)

\* FIELD_KEYWORDS of utils/text-extract.ts: a keyword is the sequence of its
\* words, the places where keyword.replace(/\s+/g, '[-_]?') puts [-_]?
FIELD_KEYWORDS ==
    [ floorplan |->
          { <<<<"f","l","o","o","r">>, <<"p","l","a","n">>>>,
            <<<<"f","l","o","o","r","p","l","a","n">>>>,
            <<<<"h","a","l","l">>, <<"p","l","a","n">>>>,
            <<<<"h","a","l","l","e","n","p","l","a","n">>>>,
            <<<<"p","l","a","t","t","e","g","r","o","n","d">>>>,
            <<<<"s","i","t","e">>, <<"m","a","p">>>>,
            <<<<"v","e","n","u","e">>, <<"m","a","p">>>>,
            <<<<"l","a","y","o","u","t">>>>,
            <<<<"s","t","a","n","d">>, <<"l","o","c","a","t","i","o","n">>>>,
            <<<<"e","x","h","i","b","i","t","i","o","n">>, <<"l","a","y","o","u","t">>>> },
      exhibitor_manual |->
          { <<<<"e","x","h","i","b","i","t","o","r">>, <<"m","a","n","u","a","l">>>>,
            <<<<"e","x","h","i","b","i","t","o","r">>, <<"h","a","n","d","b","o","o","k">>>>,
            <<<<"e","x","h","i","b","i","t","o","r">>, <<"g","u","i","d","e">>>>,
            <<<<"s","e","r","v","i","c","e">>, <<"m","a","n","u","a","l">>>>,
            <<<<"t","e","c","h","n","i","c","a","l">>, <<"m","a","n","u","a","l">>>>,
            <<<<"a","u","s","s","t","e","l","l","e","r","h","a","n","d","b","u","c","h">>>>,
            <<<<"e","x","h","i","b","i","t","o","r">>, <<"k","i","t">>>>,
            <<<<"p","a","r","t","i","c","i","p","a","t","i","o","n">>, <<"g","u","i","d","e">>>>,
            <<<<"t","e","c","h","n","i","c","a","l">>, <<"h","a","n","d","b","o","o","k">>>>,
            <<<<"e","x","h","i","b","i","t","o","r">>, <<"i","n","f","o","r","m","a","t","i","o","n">>>> },
      rules |->
          { <<<<"r","e","g","u","l","a","t","i","o","n","s">>>>,
            <<<<"r","u","l","e","s">>>>,
            <<<<"g","u","i","d","e","l","i","n","e","s">>>>,
            <<<<"t","e","c","h","n","i","c","a","l">>, <<"g","u","i","d","e","l","i","n","e","s">>>>,
            <<<<"c","o","n","s","t","r","u","c","t","i","o","n">>, <<"r","u","l","e","s">>>>,
            <<<<"s","t","a","n","d">>, <<"c","o","n","s","t","r","u","c","t","i","o","n">>>>,
            <<<<"t","e","c","h","n","i","c","a","l">>, <<"r","e","g","u","l","a","t","i","o","n","s">>>>,
            <<<<"s","a","f","e","t","y">>, <<"r","e","g","u","l","a","t","i","o","n","s">>>>,
            <<<<"e","x","h","i","b","i","t","o","r">>, <<"r","u","l","e","s">>>>,
            <<<<"r","i","c","h","t","l","i","n","i","e","n">>>>,
            <<<<"v","o","r","s","c","h","r","i","f","t","e","n">>>>,
            <<<<"t","e","r","m","s">>, <<"a","n","d">>, <<"c","o","n","d","i","t","i","o","n","s">>>> },
      schedule |->
          { <<<<"b","u","i","l","d","-","u","p">>>>,
            <<<<"b","u","i","l","d","u","p">>>>,
            <<<<"s","e","t","-","u","p">>>>,
            <<<<"s","e","t","u","p">>>>,
            <<<<"m","o","v","e","-","i","n">>>>,
            <<<<"m","o","v","e">>, <<"i","n">>>>,
            <<<<"i","n","s","t","a","l","l","a","t","i","o","n">>>>,
            <<<<"t","e","a","r","-","d","o","w","n">>>>,
            <<<<"t","e","a","r","d","o","w","n">>>>,
            <<<<"d","i","s","m","a","n","t","l","i","n","g">>>>,
            <<<<"m","o","v","e","-","o","u","t">>>>,
            <<<<"m","o","v","e">>, <<"o","u","t">>>>,
            <<<<"r","e","m","o","v","a","l">>>>,
            <<<<"a","u","f","b","a","u">>>>,
            <<<<"a","b","b","a","u">>>>,
            <<<<"a","u","f","b","a","u","z","e","i","t">>>>,
            <<<<"a","b","b","a","u","z","e","i","t">>>>,
            <<<<"o","p","b","o","u","w">>>>,
            <<<<"a","f","b","o","u","w">>>>,
            <<<<"m","o","n","t","a","g","e">>>>,
            <<<<"d","é","m","o","n","t","a","g","e">>>>,
            <<<<"o","p","e","n","i","n","g">>, <<"h","o","u","r","s">>>>,
            <<<<"s","c","h","e","d","u","l","e">>>>,
            <<<<"t","i","m","e","t","a","b","l","e">>>>,
            <<<<"t","i","m","i","n","g">>>> },
      exhibitor_directory |->
          { <<<<"e","x","h","i","b","i","t","o","r">>, <<"l","i","s","t">>>>,
            <<<<"e","x","h","i","b","i","t","o","r">>, <<"d","i","r","e","c","t","o","r","y">>>>,
            <<<<"e","x","h","i","b","i","t","o","r">>, <<"s","e","a","r","c","h">>>>,
            <<<<"f","i","n","d">>, <<"e","x","h","i","b","i","t","o","r">>>>,
            <<<<"e","x","h","i","b","i","t","o","r","s">>>>,
            <<<<"l","i","s","t">>, <<"o","f">>, <<"e","x","h","i","b","i","t","o","r","s">>>>,
            <<<<"a","u","s","s","t","e","l","l","e","r","l","i","s","t","e">>>>,
            <<<<"a","u","s","s","t","e","l","l","e","r">>, <<"s","u","c","h","e","n">>>>,
            <<<<"c","o","m","p","a","n","y">>, <<"d","i","r","e","c","t","o","r","y">>>>,
            <<<<"e","x","h","i","b","i","t","o","r">>, <<"c","a","t","a","l","o","g","u","e">>>>,
            <<<<"e","x","h","i","b","i","t","o","r">>, <<"c","a","t","a","l","o","g">>>>,
            <<<<"w","h","o">>, <<"e","x","h","i","b","i","t","s">>>> },
      downloads |->
          { <<<<"d","o","w","n","l","o","a","d">>>>,
            <<<<"d","o","w","n","l","o","a","d","s">>>>,
            <<<<"d","o","w","n","l","o","a","d">>, <<"c","e","n","t","e","r">>>>,
            <<<<"d","o","w","n","l","o","a","d">>, <<"c","e","n","t","r","e">>>>,
            <<<<"d","o","c","u","m","e","n","t","s">>>>,
            <<<<"d","o","c","u","m","e","n","t">>, <<"c","e","n","t","e","r">>>>,
            <<<<"d","o","c","u","m","e","n","t">>, <<"c","e","n","t","r","e">>>>,
            <<<<"f","i","l","e","s">>>>,
            <<<<"r","e","s","o","u","r","c","e","s">>>>,
            <<<<"m","e","d","i","a">>, <<"c","e","n","t","e","r">>>>,
            <<<<"p","r","e","s","s">>, <<"k","i","t">>>>,
            <<<<"m","a","t","e","r","i","a","l","i","e","n">>>>,
            <<<<"u","n","t","e","r","l","a","g","e","n">>>> } ]

\* what [-_]? matches
RegexSeparators ==
    {<<>>, <<"-">>, <<"_">>}

\* the words of a keyword with sep1 after the first word and sep2 after the
\* second; no keyword has more than three words
joinWords(words, sep1, sep2) ==
    IF Len(words) = 1 THEN words[1]
    ELSE IF Len(words) = 2 THEN words[1] \o sep1 \o words[2]
    ELSE words[1] \o sep1 \o words[2] \o sep2 \o words[3]

\* new RegExp(keywordLower, 'i').test(lowerUrl): a match holds the first
\* word, and is the words joined by what [-_]? matches
regexTest(keyword, lowerUrl) ==
    /\ includes(lowerUrl, keyword[1])
    /\ \E sep1 \in RegexSeparators :
          \E sep2 \in (IF Len(keyword) > 2 THEN RegexSeparators ELSE {<<>>}) :
             includes(lowerUrl, joinWords(keyword, sep1, sep2))

\* the keywords of the field whose regular expression the URL matches
matchedKeywords(url, field) ==
    LET lowerUrl == toLowerCase(url)
    IN  {keyword \in FIELD_KEYWORDS[field] : regexTest(keyword, lowerUrl)}

\* a scorer in which the PDF bonus is the whole weight of the URL
scoreUrlForFieldPdfHeavy(url, field) ==
    LET pdfBonus == IF /\ field \in {"exhibitor_manual", "rules"}
                       /\ endsWith(toLowerCase(url), <<".","p","d","f">>)
                    THEN WEIGHTS.urlMatch ELSE 0
    IN  IF pdfBonus > 0 THEN pdfBonus
        ELSE Min(10 * Cardinality(matchedKeywords(url, field)), WEIGHTS.urlMatch)

\* scoreUrlForField(url, field), on the characters of the URL
scoreUrlForFieldText(url, field) ==
    LET keywordScore == 10 * Cardinality(matchedKeywords(url, field))
        pdfBonus == IF /\ field \in {"exhibitor_manual", "rules"}
                       /\ endsWith(toLowerCase(url), <<".","p","d","f">>)
                    THEN 10 ELSE 0
    IN  Min(keywordScore + pdfBonus, WEIGHTS.urlMatch)

\* the URLs that keywords are added to
ScoreUrls ==
    {UrlText("home"), UrlText("p01"), UrlText("p02")}

\* how the words of an added keyword are joined
AddSeparators ==
    {<<>>, <<"-">>, <<" ">>}

\* where a keyword is added: behind the URL, and in its path next to a
\* delimiter
AddPositions(url) ==
    LET pathStart == Len(SchemeHttps) + Len(hostnameOf(url)) + 1
    IN  {i \in pathStart..Len(url) :
            \/ i = Len(url)
            \/ url[i] \in {"/", "-", "."}
            \/ url[i + 1] \in {"/", "-", "."}}

\* the text with the addition put in behind its first i characters
insertAt(text, addition, i) ==
    SubSeq(text, 1, i) \o addition \o SubSeq(text, i + 1, Len(text))

\* the candidates selectBest is examined with: scores on both sides of the
\* two thresholds and above the weights' sum, with a snippet, with an empty
\* one and without
MaxCandidates ==
    2

SelectScores ==
    {39, 40, 69, 70, 105}

SelectSnippets ==
    {NULL, "t_empty", "t_manual_snippet"}

\* the candidate lists of length n, each candidate with a URL of its own
SelectLists(n) ==
    {[i \in 1..n |-> ScoredCandidate(PdfIds[i], pick[i][1], "t_manual",
                                     pick[i][2], "link")] :
        pick \in [1..n -> SelectScores \X SelectSnippets]}

NoSelection ==
    SelectionResult(NULL, "missing", [title |-> NULL, snippet |-> NULL])

\* a scoring call: its arguments and its results
ScoringCall(op, field, url, keyword, changed, before, after, candidates, result) ==
    [op |-> op, field |-> field, url |-> url, keyword |-> keyword,
     changed |-> changed, before |-> before, after |-> after,
     candidates |-> candidates, result |-> result, content |-> <<>>]

NoScoring ==
    ScoringCall("none", "none", <<>>, <<>>, <<>>, 0, 0, <<>>, NoSelection)

\* the calls of scoreUrlForField to make: a URL, a field, and the URL with a
\* keyword of the field added
UrlScoringCalls ==
    UNION {{ScoringCall("scoreUrlForField", field, url, keyword,
                        insertAt(url, joinWords(keyword, sep, sep), i),
                        0, 0, <<>>, NoSelection) :
               keyword \in FIELD_KEYWORDS[field], sep \in AddSeparators,
               i \in AddPositions(url)} : field \in Fields, url \in ScoreUrls}

\* the calls of selectBest to make
SelectCalls ==
    UNION {{ScoringCall("selectBest", "exhibitor_manual", <<>>, <<>>, <<>>, 0, 0,
                        candidates, NoSelection) :
               candidates \in SelectLists(n)} : n \in 0..MaxCandidates}


----------------------------------------------------------------------------
(* agent/tools/extract-schedule.ts, on the characters of the text: the      *)
(* regular expressions are matched the way RegExp.prototype.exec matches    *)
(* them, leftmost first and greedy                                          *)

\* a string | null that is null
nullText ==
    <<NULL>>

\* the digits, by value
DigitChars ==
    <<"0","1","2","3","4","5","6","7","8","9">>

\* \s of a JavaScript regular expression, as far as the texts have it
WhitespaceChars ==
    {" ", "\n", "\t"}

\* [./-] of DATE_PATTERNS[0]
DateSeparators ==
    {".", "/", "-"}

\* the reach of .{0,150} on either side of a keyword
ContextReach ==
    150

BUILD_UP_KEYWORDS ==
    << <<"b","u","i","l","d","-","u","p">>, <<"b","u","i","l","d"," ","u","p">>,
       <<"b","u","i","l","d","u","p">>, <<"s","e","t","-","u","p">>,
       <<"s","e","t"," ","u","p">>, <<"s","e","t","u","p">>,
       <<"m","o","v","e","-","i","n">>, <<"m","o","v","e"," ","i","n">>,
       <<"m","o","v","e","i","n">>,
       <<"i","n","s","t","a","l","l","a","t","i","o","n">>,
       <<"a","s","s","e","m","b","l","y">>,
       <<"c","o","n","s","t","r","u","c","t","i","o","n"," ","p","e","r","i","o","d">>,
       <<"s","t","a","n","d"," ","c","o","n","s","t","r","u","c","t","i","o","n">>,
       <<"a","u","f","b","a","u">>, <<"a","u","f","b","a","u","z","e","i","t">>,
       <<"a","u","f","b","a","u","t","a","g","e">>,
       <<"e","i","n","r","i","c","h","t","u","n","g">>,
       <<"o","p","b","o","u","w">>, <<"o","p","b","o","u","w","d","a","g","e","n">>,
       <<"m","o","n","t","a","g","e">>,
       <<"i","n","s","t","a","l","l","a","t","i","o","n">> >>

\* the accented letter of the last keyword is the one symbol "e_acute"
TEAR_DOWN_KEYWORDS ==
    << <<"t","e","a","r","-","d","o","w","n">>, <<"t","e","a","r"," ","d","o","w","n">>,
       <<"t","e","a","r","d","o","w","n">>,
       <<"d","i","s","m","a","n","t","l","i","n","g">>,
       <<"d","i","s","m","a","n","t","l","e">>,
       <<"m","o","v","e","-","o","u","t">>, <<"m","o","v","e"," ","o","u","t">>,
       <<"m","o","v","e","o","u","t">>, <<"r","e","m","o","v","a","l">>,
       <<"b","r","e","a","k","d","o","w","n">>,
       <<"s","t","a","n","d"," ","r","e","m","o","v","a","l">>,
       <<"a","b","b","a","u">>, <<"a","b","b","a","u","z","e","i","t">>,
       <<"a","b","b","a","u","t","a","g","e">>,
       <<"a","f","b","o","u","w">>, <<"a","f","b","o","u","w","d","a","g","e","n">>,
       <<"d","e_acute","m","o","n","t","a","g","e">> >>

\* the alternation of month names of DATE_PATTERNS[2] and [3], in its order
MonthNames ==
    << <<"j","a","n","u","a","r","y">>, <<"f","e","b","r","u","a","r","y">>,
       <<"m","a","r","c","h">>, <<"a","p","r","i","l">>, <<"m","a","y">>,
       <<"j","u","n","e">>, <<"j","u","l","y">>, <<"a","u","g","u","s","t">>,
       <<"s","e","p","t","e","m","b","e","r">>, <<"o","c","t","o","b","e","r">>,
       <<"n","o","v","e","m","b","e","r">>, <<"d","e","c","e","m","b","e","r">> >>

\* MONTH_MAP[name], the name in lower case
MONTH_MAP(name) ==
    LET m == CHOOSE k \in 1..12 : MonthNames[k] = name
    IN  IF m < 10 THEN <<"0", DigitChars[m + 1]>> ELSE <<"1", DigitChars[m - 9]>>

\* a padStart that pads nothing
padNothing(s) ==
    s

\* s.padStart(2, '0')
padStart(s) ==
    IF Len(s) < 2 THEN <<"0">> \o s ELSE s

\* s.trim()
trim(s) ==
    LET inked == {i \in 1..Len(s) : s[i] \notin WhitespaceChars}
    IN  IF inked = {} THEN <<>>
        ELSE SubSeq(s, CHOOSE i \in inked : \A j \in inked : i <= j,
                       CHOOSE i \in inked : \A j \in inked : i >= j)

\* text.replace(/\r\n/g, '\n').replace(/\s+/g, ' '): every run of whitespace
\* becomes one space
normalizeText(text) ==
    LET kept == SelectSeq([i \in 1..Len(text) |-> i],
                          LAMBDA i : \/ text[i] \notin WhitespaceChars
                                     \/ i = 1
                                     \/ text[i - 1] \notin WhitespaceChars)
    IN  [n \in 1..Len(kept) |->
            IF text[kept[n]] \in WhitespaceChars THEN " " ELSE text[kept[n]]]

\* \d{n} at position i of s
digitsAt(s, i, n) ==
    /\ i >= 1
    /\ i + n - 1 <= Len(s)
    /\ \A k \in 0..(n - 1) : s[i + k] \in Digits

\* the length of what \d{1,2} takes at position i of s when the character
\* after it has to be in the set: two digits before one (0 for no match)
oneOrTwoDigits(s, i, after) ==
    IF digitsAt(s, i, 2) /\ i + 2 <= Len(s) /\ s[i + 2] \in after THEN 2
    ELSE IF digitsAt(s, i, 1) /\ i + 1 <= Len(s) /\ s[i + 1] \in after THEN 1
    ELSE 0

\* the length of the run of whitespace at position i of s
whitespaceRun(s, i) ==
    CHOOSE n \in 0..(Len(s) - i + 1) :
        /\ \A k \in 0..(n - 1) : s[i + k] \in WhitespaceChars
        /\ (i + n > Len(s) \/ s[i + n] \notin WhitespaceChars)

\* the letters a month name begins with, in either case
MonthInitials ==
    {"j", "f", "m", "a", "s", "o", "n", "d", "J", "F", "M", "A", "S", "O", "N", "D"}

\* the month name at position i of s, in lower case, matched without regard
\* to case (<<>> if there is none); no name is the beginning of another
monthAt(s, i) ==
    LET found == {k \in 1..12 :
                    /\ i + Len(MonthNames[k]) - 1 <= Len(s)
                    /\ \A c \in 1..Len(MonthNames[k]) :
                          toLowerChar(s[i + c - 1]) = MonthNames[k][c]}
    IN  IF i >= 1 /\ i <= Len(s) /\ s[i] \in MonthInitials /\ found # {}
        THEN MonthNames[CHOOSE k \in found : TRUE]
        ELSE <<>>

\* a RegExpExecArray: the match and its groups, an unmatched group as <<>>
RegExpMatch(full, groups) ==
    [matched |-> TRUE, full |-> full, groups |-> groups]

NoMatch ==
    [matched |-> FALSE, full |-> <<>>, groups |-> <<>>]

\* /(\d{1,2})[./-](\d{1,2})[./-](\d{4})/ at position i
numericDateAt(s, i) ==
    LET a == oneOrTwoDigits(s, i, DateSeparators)
        b == IF a = 0 THEN 0 ELSE oneOrTwoDigits(s, i + a + 1, DateSeparators)
    IN  IF a > 0 /\ b > 0 /\ digitsAt(s, i + a + b + 2, 4)
        THEN RegExpMatch(SubSeq(s, i, i + a + b + 5),
                         << SubSeq(s, i, i + a - 1),
                            SubSeq(s, i + a + 1, i + a + b),
                            SubSeq(s, i + a + b + 2, i + a + b + 5) >>)
        ELSE NoMatch

\* /(\d{4})-(\d{2})-(\d{2})/ at position i
isoDateAt(s, i) ==
    IF /\ digitsAt(s, i, 4) /\ digitsAt(s, i + 5, 2) /\ digitsAt(s, i + 8, 2)
       /\ s[i + 4] = "-" /\ s[i + 7] = "-"
    THEN RegExpMatch(SubSeq(s, i, i + 9),
                     << SubSeq(s, i, i + 3), SubSeq(s, i + 5, i + 6),
                        SubSeq(s, i + 8, i + 9) >>)
    ELSE NoMatch

\* /(January|...|December)\s+(\d{1,2}),?\s+(\d{4})/i at position i
monthFirstAt(s, i) ==
    LET month == monthAt(s, i)
        d == i + Len(month) + whitespaceRun(s, i + Len(month))
        a == oneOrTwoDigits(s, d, WhitespaceChars \cup {","})
        comma == IF a > 0 /\ s[d + a] = "," THEN 1 ELSE 0
        y == d + a + comma + whitespaceRun(s, d + a + comma)
    IN  IF /\ month # <<>>
           /\ d > i + Len(month)
           /\ a > 0
           /\ y > d + a + comma
           /\ digitsAt(s, y, 4)
        THEN RegExpMatch(SubSeq(s, i, y + 3),
                         << SubSeq(s, i, i + Len(month) - 1),
                            SubSeq(s, d, d + a - 1), SubSeq(s, y, y + 3) >>)
        ELSE NoMatch

\* /(\d{1,2})\s+(January|...|December)\s+(\d{4})/i at position i
dayFirstAt(s, i) ==
    LET a == oneOrTwoDigits(s, i, WhitespaceChars)
        m == i + a + whitespaceRun(s, i + a)
        month == monthAt(s, m)
        y == m + Len(month) + whitespaceRun(s, m + Len(month))
    IN  IF /\ a > 0
           /\ month # <<>>
           /\ y > m + Len(month)
           /\ digitsAt(s, y, 4)
        THEN RegExpMatch(SubSeq(s, i, y + 3),
                         << SubSeq(s, i, i + a - 1),
                            SubSeq(s, m, m + Len(month) - 1), SubSeq(s, y, y + 3) >>)
        ELSE NoMatch

\* DATE_PATTERNS[n] at position i
datePatternAt(n, s, i) ==
    CASE n = 1 -> numericDateAt(s, i)
      [] n = 2 -> isoDateAt(s, i)
      [] n = 3 -> monthFirstAt(s, i)
      [] n = 4 -> dayFirstAt(s, i)

\* the first match of a list of attempts, NoMatch if none of them matched
firstMatch(found) ==
    IF \A i \in 1..Len(found) : ~found[i].matched THEN NoMatch
    ELSE found[CHOOSE i \in 1..Len(found) :
                  /\ found[i].matched
                  /\ \A j \in 1..(i - 1) : ~found[j].matched]

\* DATE_PATTERNS[n].exec(s) with lastIndex 0: the leftmost match
execDate(n, s) ==
    firstMatch([i \in 1..Len(s) |-> datePatternAt(n, s, i)])

\* fullMatch.split(/[./-]/)
splitDate(s) ==
    LET cuts == <<0>> \o SelectSeq([i \in 1..Len(s) |-> i],
                                   LAMBDA i : s[i] \in DateSeparators)
                     \o <<Len(s) + 1>>
    IN  [n \in 1..(Len(cuts) - 1) |-> SubSeq(s, cuts[n] + 1, cuts[n + 1] - 1)]

\* the body of parseDate: test[n] is the test of fullMatch against pattern
\* n held to its beginning
formatDate(fullMatch, test, parts) ==
    IF test[2].matched THEN SubSeq(fullMatch, 1, 10)
    ELSE IF test[1].matched /\ Len(parts) >= 3
    THEN parts[3] \o <<"-">> \o padStart(parts[2]) \o <<"-">> \o padStart(parts[1])
    ELSE IF test[3].matched
    THEN test[3].groups[3] \o <<"-">>
             \o MONTH_MAP(toLowerCase(test[3].groups[1])) \o <<"-">>
             \o padStart(test[3].groups[2])
    ELSE IF test[4].matched
    THEN test[4].groups[3] \o <<"-">>
             \o MONTH_MAP(toLowerCase(test[4].groups[2])) \o <<"-">>
             \o padStart(test[4].groups[1])
    ELSE nullText

\* parseDate(match)
parseDate(match) ==
    formatDate(match.full, [n \in 1..4 |-> datePatternAt(n, match.full, 1)],
               splitDate(match.full))

\* parseInt(s, 10) of a string of one or two digits
parseInt(s) ==
    LET value(c) == (CHOOSE k \in 1..10 : DigitChars[k] = c) - 1
    IN  IF Len(s) = 1 THEN value(s[1]) ELSE 10 * value(s[1]) + value(s[2])

\* n.toString() of a number below 100
numberToString(n) ==
    IF n < 10 THEN <<DigitChars[n + 1]>>
    ELSE <<DigitChars[(n \div 10) + 1], DigitChars[(n % 10) + 1]>>

\* which of the words stands at position i of s (<<>> for none); no word of
\* a pattern's alternation is the beginning of another
wordAt(s, i, words, ignoreCase) ==
    LET found == {w \in words :
                    /\ i + Len(w) - 1 <= Len(s)
                    /\ (IF ignoreCase
                        THEN toLowerCase(SubSeq(s, i, i + Len(w) - 1))
                        ELSE SubSeq(s, i, i + Len(w) - 1)) = w}
    IN  IF found = {} THEN <<>> ELSE SubSeq(s, i, i + Len(CHOOSE w \in found : TRUE) - 1)

\* (am|pm|AM|PM), and (am|pm) under the flag i
Meridiems ==
    {<<"a","m">>, <<"p","m">>, <<"A","M">>, <<"P","M">>}

MeridiemsLower ==
    {<<"a","m">>, <<"p","m">>}

\* (Uhr|h), and the same under the flag i
HourWords ==
    {<<"U","h","r">>, <<"h">>}

HourWordsLower ==
    {<<"u","h","r">>, <<"h">>}

\* /(\d{1,2})<sep>(\d{2})\s*(<words>)?/ at position i: TIME_PATTERNS[0] and
\* [1], and the two expressions of parseTime
clockTimeAt(s, i, sep, words, ignoreCase) ==
    LET a == oneOrTwoDigits(s, i, {sep})
        w == i + a + 3 + whitespaceRun(s, i + a + 3)
        word == wordAt(s, w, words, ignoreCase)
    IN  IF a > 0 /\ digitsAt(s, i + a + 1, 2)
        THEN RegExpMatch(SubSeq(s, i, w + Len(word) - 1),
                         << SubSeq(s, i, i + a - 1),
                            SubSeq(s, i + a + 1, i + a + 2), word >>)
        ELSE NoMatch

\* /(\d{1,2})\s*(am|pm|AM|PM)/ at position i
hourOnlyAt(s, i) ==
    LET a == IF digitsAt(s, i, 2) THEN 2 ELSE IF digitsAt(s, i, 1) THEN 1 ELSE 0
        w == i + a + whitespaceRun(s, i + a)
        word == wordAt(s, w, Meridiems, FALSE)
    IN  IF a > 0 /\ word # <<>>
        THEN RegExpMatch(SubSeq(s, i, w + 1), << SubSeq(s, i, i + a - 1), word >>)
        ELSE NoMatch

\* TIME_PATTERNS[n] at position i
timePatternAt(n, s, i) ==
    IF n = 3 THEN hourOnlyAt(s, i)
    ELSE clockTimeAt(s, i, IF n = 1 THEN ":" ELSE ".",
                     IF n = 1 THEN Meridiems ELSE HourWords, FALSE)

\* TIME_PATTERNS[n].exec(s) with lastIndex 0
execTime(n, s) ==
    firstMatch([i \in 1..Len(s) |-> timePatternAt(n, s, i)])

\* the leftmost match in fullMatch of parseTime's expression with the
\* separator: /(\d{1,2}):(\d{2})\s*(am|pm)?/i or /(\d{1,2})\.(\d{2})\s*(Uhr|h)?/i
execClockTime(s, sep) ==
    firstMatch([i \in 1..Len(s) |->
                   clockTimeAt(s, i, sep,
                               IF sep = ":" THEN MeridiemsLower ELSE HourWordsLower,
                               TRUE)])

\* the body of parseTime
formatTime(colonFormat, dotFormat) ==
    LET h == parseInt(colonFormat.groups[1])
        ampm == toLowerCase(colonFormat.groups[3])
        hours == IF ampm = <<"p","m">> /\ h < 12 THEN h + 12
                 ELSE IF ampm = <<"a","m">> /\ h = 12 THEN 0
                 ELSE h
    IN  IF colonFormat.matched
        THEN padStart(numberToString(hours)) \o <<":">> \o colonFormat.groups[2]
        ELSE IF dotFormat.matched
        THEN padStart(dotFormat.groups[1]) \o <<":">> \o dotFormat.groups[2]
        ELSE nullText

\* parseTime(match)
parseTime(match) ==
    formatTime(execClockTime(match.full, ":"), execClockTime(match.full, "."))

\* the date, and the time, of the match of the first pattern that matched
dateOfMatch(match) ==
    IF match.matched THEN parseDate(match) ELSE nullText

timeOfMatch(match) ==
    IF match.matched THEN parseTime(match) ELSE nullText

\* extractDateTimeFromContext(context): of each list of patterns, the first
\* pattern that matches decides
extractDateTimeFromContext(context) ==
    [date |-> dateOfMatch(firstMatch([n \in 1..4 |-> execDate(n, context)])),
     time |-> timeOfMatch(firstMatch([n \in 1..3 |-> execTime(n, context)]))]

\* where new RegExp(`.{0,150}${keyword}.{0,150}`, 'gi') matches in the text,
\* from position s on (matchAll): the leftmost start from which the keyword
\* is within reach, the last such keyword (the first .{0,150} is greedy), and
\* the reach behind it; the next match starts behind this one
RECURSIVE matchAllFrom(_, _, _, _)
matchAllFrom(lower, keyword, found, s) ==
    LET later == {j \in found : j >= s}
        first == CHOOSE j \in later : \A k \in later : j <= k
        start == IF first - ContextReach > s THEN first - ContextReach ELSE s
        within == {j \in later : j <= start + ContextReach}
        last == CHOOSE j \in within : \A k \in within : j >= k
        reach == last + Len(keyword) - 1 + ContextReach
        end == IF reach < Len(lower) THEN reach ELSE Len(lower)
    IN  IF later = {} THEN <<>>
        ELSE <<[start |-> start, end |-> end]>>
                 \o matchAllFrom(lower, keyword, found, end + 1)

\* match[0].trim() of the matches of one keyword, in the order of matchAll
contextsOfKeyword(normalizedText, lower, keyword) ==
    LET found == {j \in 1..(Len(lower) - Len(keyword) + 1) :
                     startsWithAt(lower, keyword, j)}
        matches == matchAllFrom(lower, keyword, found, 1)
    IN  [n \in 1..Len(matches) |->
            trim(SubSeq(normalizedText, matches[n].start, matches[n].end))]

\* the contexts of the keywords k, k + 1, ... of a list, in the order the
\* two loops meet them
RECURSIVE contextsOf(_, _, _, _)
contextsOf(normalizedText, lower, keywords, k) ==
    IF k > Len(keywords) THEN <<>>
    ELSE contextsOfKeyword(normalizedText, lower, keywords[k])
             \o contextsOf(normalizedText, lower, keywords, k + 1)

\* a ScheduleEntry of the extractor
ExtractedEntry(date, time, description, sourceUrl) ==
    [date |-> date, time |-> time, description |-> description,
     source_url |-> sourceUrl]

\* what the loop over the matches pushes to rawMatches: the context of each
\* match and what extractDateTimeFromContext finds in it
rawMatch(type, context, extracted) ==
    [type |-> type, context |-> context,
     date |-> extracted.date, time |-> extracted.time]

rawMatchesOf(contexts, type) ==
    [n \in 1..Len(contexts) |->
        rawMatch(type, contexts[n], extractDateTimeFromContext(contexts[n]))]

\* what the loop over the matches pushes to the entries, from match n on
RECURSIVE pushEntries(_, _, _, _)
pushEntries(entries, matches, sourceUrl, n) ==
    IF n > Len(matches) THEN entries
    ELSE LET extracted == matches[n]
             entry == ExtractedEntry(extracted.date, extracted.time,
                                     sliceTo(extracted.context, 200), sourceUrl)
         IN  pushEntries(
                IF /\ extracted.date # nullText
                   /\ ~\E k \in 1..Len(entries) : entries[k].date = extracted.date
                THEN Append(entries, entry)
                ELSE IF extracted.date = nullText /\ Len(entries) = 0
                THEN Append(entries, entry)
                ELSE entries,
                matches, sourceUrl, n + 1)

\* (a.date ?? '').localeCompare(b.date ?? '') < 0, for dates of digits and
\* hyphens: the first character that differs decides, a hyphen before a
\* digit, and a beginning before the whole
dateKey(date) ==
    IF date = nullText THEN <<>> ELSE date

charRank(c) ==
    IF c = "-" THEN 0 ELSE CHOOSE k \in 1..10 : DigitChars[k] = c

comesBefore(a, b) ==
    \E i \in 1..(Len(b)) :
        /\ \A k \in 1..(i - 1) : k <= Len(a) /\ a[k] = b[k]
        /\ (i > Len(a) \/ charRank(a[i]) < charRank(b[i]))

\* a sort that leaves the entries in the order they were pushed
sortNothing(entries) ==
    entries

\* entries.sort((a, b) => (a.date ?? '').localeCompare(b.date ?? '')); the
\* sort is stable
sortByDate(entries) ==
    LET before(i, j) ==
            \/ comesBefore(dateKey(entries[i].date), dateKey(entries[j].date))
            \/ /\ entries[i].date = entries[j].date
               /\ i < j
        place(i) == 1 + Cardinality({j \in 1..Len(entries) : before(j, i)})
    IN  [n \in 1..Len(entries) |->
            entries[CHOOSE i \in 1..Len(entries) : place(i) = n]]

\* what extractScheduleFromText returns when its loops have met the matches
scheduleOf(matches, sourceUrl) ==
    [build_up |-> sortByDate(pushEntries(<<>>, matches[1], sourceUrl, 1)),
     tear_down |-> sortByDate(pushEntries(<<>>, matches[2], sourceUrl, 1)),
     rawMatches |-> matches[1] \o matches[2]]

\* the matches of the loop over a list of keywords
matchesOf(normalizedText, keywords, type) ==
    rawMatchesOf(contextsOf(normalizedText, toLowerCase(normalizedText), keywords, 1),
                 type)

\* extractScheduleFromText(text, sourceUrl): the loop over the build-up
\* keywords, the loop over the tear-down keywords, and the two sorts
extractScheduleFromText(text, sourceUrl) ==
    scheduleOf([n \in 1..2 |->
                   matchesOf(normalizeText(text),
                             IF n = 1 THEN BUILD_UP_KEYWORDS ELSE TEAR_DOWN_KEYWORDS,
                             IF n = 1 THEN "build_up" ELSE "tear_down")],
               sourceUrl)

----------------------------------------------------------------------------
(* The texts the extractor is examined with                                 *)

\* the two digits of a number below 100
twoDigits(n) ==
    <<DigitChars[(n \div 10) + 1], DigitChars[(n % 10) + 1]>>

\* the four digits of a year
fourDigits(y) ==
    twoDigits(y \div 100) \o twoDigits(y % 100)

\* a month name as it is written: January or JANUARY
writeMonth(m, upper) ==
    LET name == MonthNames[m]
        toUpperChar(c) == UpperChars[CHOOSE i \in 1..26 : LowerChars[i] = c]
    IN  [i \in 1..Len(name) |->
            IF upper \/ i = 1 THEN toUpperChar(name[i]) ELSE name[i]]

\* the ways a date is written: the four forms of DATE_PATTERNS, the numbers
\* with and without a leading zero
DateWritings ==
    [form : {"numeric"}, sep : DateSeparators, padded : BOOLEAN,
     comma : {FALSE}, upper : {FALSE}]
      \cup [form : {"iso"}, sep : {"-"}, padded : {TRUE},
            comma : {FALSE}, upper : {FALSE}]
      \cup [form : {"monthFirst"}, sep : {" "}, padded : BOOLEAN,
            comma : BOOLEAN, upper : {FALSE}]
      \cup [form : {"dayFirst"}, sep : {" "}, padded : BOOLEAN,
            comma : {FALSE}, upper : BOOLEAN]

DateDays ==
    {1, 9, 29}

DateMonths ==
    1..12

DateYears ==
    {1999, 2026}

\* the date written in the way w
writeDate(w, day, month, year) ==
    LET d == IF w.padded THEN twoDigits(day) ELSE numberToString(day)
        m == IF w.padded THEN twoDigits(month) ELSE numberToString(month)
    IN  CASE w.form = "numeric" ->
                d \o <<w.sep>> \o m \o <<w.sep>> \o fourDigits(year)
          [] w.form = "iso" ->
                fourDigits(year) \o <<"-">> \o twoDigits(month) \o <<"-">>
                    \o twoDigits(day)
          [] w.form = "monthFirst" ->
                writeMonth(month, w.upper) \o <<" ">> \o d
                    \o (IF w.comma THEN <<",">> ELSE <<>>) \o <<" ">>
                    \o fourDigits(year)
          [] w.form = "dayFirst" ->
                d \o <<" ">> \o writeMonth(month, w.upper) \o <<" ">>
                    \o fourDigits(year)

\* the times of day that are written, each with the hour of the day and the
\* minute it says
TimeWritings ==
    { [text |-> <<"0","8",":","0","0">>, hour |-> 8, minute |-> 0],
      [text |-> <<"8",":","3","0">>, hour |-> 8, minute |-> 30],
      [text |-> <<"2",":","3","0"," ","p","m">>, hour |-> 14, minute |-> 30],
      [text |-> <<"1","2",":","1","5"," ","A","M">>, hour |-> 0, minute |-> 15],
      [text |-> <<"1","7",".","3","0"," ","U","h","r">>, hour |-> 17, minute |-> 30],
      [text |-> <<"6"," ","p","m">>, hour |-> 18, minute |-> 0] }

\* what a context was written from: the date and the time of day, if any
Written(hasDate, day, month, year, hasTime, hour, minute) ==
    [hasDate |-> hasDate, day |-> day, month |-> month, year |-> year,
     hasTime |-> hasTime, hour |-> hour, minute |-> minute]

NothingWritten ==
    Written(FALSE, 0, 0, 0, FALSE, 0, 0)

NoExtractionResult ==
    [build_up |-> <<>>, tear_down |-> <<>>, rawMatches |-> <<>>]

NothingExtracted ==
    [date |-> nullText, time |-> nullText]

\* a call of the extractor: its argument, what the argument was written
\* from, and its result
ExtractionCall(op, text, written, extracted, result) ==
    [op |-> op, text |-> text, written |-> written, extracted |-> extracted,
     result |-> result]

NoExtraction ==
    ExtractionCall("none", <<>>, NothingWritten, NothingExtracted,
                   NoExtractionResult)

ContextKeyword ==
    <<"S","e","t","u","p"," ">>

\* the contexts of extractDateTimeFromContext: a keyword, then a date or
\* none, then a time of day or none
ContextCalls ==
    LET dated == {ExtractionCall("extractDateTimeFromContext",
                                 ContextKeyword \o writeDate(w, d, m, y),
                                 Written(TRUE, d, m, y, FALSE, 0, 0),
                                 NothingExtracted, NoExtractionResult) :
                     w \in DateWritings, d \in DateDays, m \in DateMonths,
                     y \in DateYears}
        undated == {ExtractionCall("extractDateTimeFromContext", ContextKeyword,
                                   NothingWritten, NothingExtracted,
                                   NoExtractionResult)}
        timed(c) == {[c EXCEPT !.text = @ \o <<" ">> \o t.text,
                               !.written.hasTime = TRUE,
                               !.written.hour = t.hour,
                               !.written.minute = t.minute] :
                        t \in TimeWritings}
    IN  dated \cup undated \cup UNION {timed(c) : c \in dated \cup undated}

\* what stands between two mentions: more than a context reaches over, or
\* two blanks
Filler(n) ==
    [i \in 1..n |-> "x"]

LongGap ==
    <<"\n">> \o Filler(ContextReach + 10) \o <<"\n">>

ShortGap ==
    <<" ", " ">>

\* the mentions a text is put together from, each with the gap behind it
ScheduleSegments ==
    << <<"S","e","t","u","p"," ","3","0",".","0","1",".","2","0","2","6"," ","0","8",":","0","0">> \o LongGap,
       <<"S","e","t","-","u","p",":"," ","2","9",".","0","1",".","2","0","2","6",","," ","1","0",":","0","0">> \o LongGap,
       <<"s","e","t","u","p"," ","2","9",".","0","1",".","2","0","2","6"," ","0","7",":","0","0">> \o LongGap,
       <<"A","u","f","b","a","u",":"," ","d","a","t","e","s"," ","t","o"," ","b","e"," ","a","n","n","o","u","n","c","e","d">> \o LongGap,
       <<"A","b","b","a","u"," ","2","0","2","6","-","0","2","-","0","2"," ","1","8",":","0","0">> \o LongGap,
       <<"T","e","a","r","d","o","w","n"," ","a","f","t","e","r"," ","t","h","e"," ","s","h","o","w">> \o ShortGap >>

MaxSegments ==
    2

RECURSIVE joinSegments(_, _)
joinSegments(pick, k) ==
    IF k > Len(pick) THEN <<>>
    ELSE ScheduleSegments[pick[k]] \o joinSegments(pick, k + 1)

\* the texts of extractScheduleFromText: up to MaxSegments mentions
TextCalls ==
    UNION {{ExtractionCall("extractScheduleFromText", joinSegments(pick, 1),
                           NothingWritten, NothingExtracted, NoExtractionResult) :
               pick \in [1..n -> 1..Len(ScheduleSegments)]} : n \in 0..MaxSegments}


----------------------------------------------------------------------------
(* The browser of agent/tools/open-page.ts, which every runDiscovery call   *)
(* of the process opens its pages with and closes when it returns           *)

\* let browser: Browser | null = null
NoBrowser ==
    0

\* the runDiscovery calls that are made, and the pages each may open
MaxRuns ==
    2

MaxOpens ==
    2

Runs ==
    1..MaxRuns

\* a run: where it is, the browser ensureBrowser gave it, the browser it
\* is closing, and the results of its page opens
Run(at, browserInstance, results) ==
    [pc |-> at, browserInstance |-> browserInstance, results |-> results]

idleRun ==
    Run("idle", NoBrowser, <<>>)

\* the variables of ClaudeAgent.run: where the call is, the maxIterations
\* option, the loop variables iteration and done, and the roles of the
\* messages, each with what the message holds
Agent(at, maxIterations, iteration, done, messages) ==
    [pc |-> at, maxIterations |-> maxIterations, iteration |-> iteration,
     done |-> done, messages |-> messages]

idleAgent ==
    Agent("idle", 0, 0, FALSE, <<>>)

\* no browser launched, no run started and no agent running
sharedIdle ==
    /\ browser = NoBrowser
    /\ instances = <<>>
    /\ runs = [r \in Runs |-> idleRun]
    /\ agent = idleAgent

----------------------------------------------------------------------------
(* The file cache: cache/manager.ts.  A file system is a function from the  *)
(* paths that exist to their files; a file is its data and the time it was  *)
(* written.                                                                 *)

PAGE_TTL_MS ==
    24 * 60 * 60 * 1000

DOWNLOAD_TTL_MS ==
    7 * 24 * 60 * 60 * 1000

\* the URL the cache is exercised with: it is cached as a page and, under
\* two file names, as a download
CacheUrls ==
    {"home"}

\* crypto.createHash('sha256').update(url).digest('hex').slice(0, 16): the
\* digests of the modelled URLs, which differ
urlHash(url) ==
    CASE url = "home" -> "7d0f3c1a9b2e4f60"
      [] url = "p01" -> "c41e8a07d95b3f12"
      [] OTHER -> "0000000000000000"

\* new URL(url).hostname.replace(/[^a-z0-9.-]/gi, '_')
cacheGetDomain(url) ==
    LET hostname == hostnameOf(UrlText(url))
    IN  [i \in 1..Len(hostname) |->
            IF hostname[i] \in (WordChars \ {"_"}) \cup {".", "-"}
            THEN hostname[i] ELSE "_"]

\* new URL(url).pathname, of a URL without query or fragment
pathnameOf(url) ==
    LET text == UrlText(url)
        from == (IF startsWith(text, SchemeHttps) THEN Len(SchemeHttps)
                 ELSE Len(SchemeHttp)) + Len(hostnameOf(text)) + 1
    IN  IF from > Len(text) THEN <<"/">> ELSE SubSeq(text, from, Len(text))

\* path.extname(p): from the last dot of the last segment, unless the dot
\* leads the segment or there is none
extname(p) ==
    LET slashes == {i \in 1..Len(p) : p[i] = "/"}
        start == IF slashes = {} THEN 1
                 ELSE (CHOOSE i \in slashes : \A j \in slashes : j <= i) + 1
        dots == {i \in (start + 1)..Len(p) : p[i] = "."}
    IN  IF dots = {} THEN <<>>
        ELSE SubSeq(p, CHOOSE i \in dots : \A j \in dots : j <= i, Len(p))

ExtBin ==
    <<".","b","i","n">>

ExtHtml ==
    <<".","h","t","m","l">>

ExtJson ==
    <<".","j","s","o","n">>

\* path.join(baseDir, dir, domain, hash + ext); the metadata directory has
\* no directory per domain
CachePath(dir, domain, hash, ext) ==
    [dir |-> dir, domain |-> domain, hash |-> hash, ext |-> ext]

\* "no such path" and "no metadata": the null results
NoPath ==
    CachePath("none", <<>>, "", <<>>)

NoMetadata ==
    [url |-> NULL, timestamp |-> 0, status |-> 0, contentType |-> NULL, size |-> 0]

\* the result of a call: the boolean, the payload, the path or the metadata
\* it returned, the other fields at their null values
NoResult ==
    [valid |-> FALSE, data |-> NULL, path |-> NoPath, metadata |-> NoMetadata]

getPagePath(url) ==
    CachePath("pages", cacheGetDomain(url), urlHash(url), ExtHtml)

getDownloadPath(url, originalFilename) ==
    LET ext == IF originalFilename # <<>> THEN extname(originalFilename)
               ELSE IF extname(pathnameOf(url)) # <<>> THEN extname(pathnameOf(url))
               ELSE ExtBin
    IN  CachePath("downloads", cacheGetDomain(url), urlHash(url), ext)

getMetadataPath(url) ==
    CachePath("metadata", <<>>, urlHash(url), ExtJson)

existsSync(fs, path) ==
    path \in DOMAIN fs

\* fs.writeFileSync(path, data), at time now
writeFileSync(fs, path, data, now) ==
    [p \in DOMAIN fs \cup {path} |->
        IF p = path THEN [data |-> data, mtime |-> now] ELSE fs[p]]

\* the file system with nothing under the cache directory
NoFiles ==
    [p \in {} |-> [data |-> "none", mtime |-> 0]]

\* what a page and a download hold, and their sizes
PagePayloads ==
    {"<html>fair</html>"}

DownloadPayloads ==
    {"%PDF-1.7"}

byteLength(data) ==
    CASE data = "<html>fair</html>" -> 17
      [] data = "%PDF-1.7" -> 8
      [] OTHER -> 0

CacheMetadata(url, timestamp, status, contentType, size) ==
    [url |-> url, timestamp |-> timestamp, status |-> status,
     contentType |-> contentType, size |-> size]

saveMetadata(fs, url, status, contentType, size, now) ==
    writeFileSync(fs, getMetadataPath(url),
                  CacheMetadata(url, now, status, contentType, size), now)

\* a TTL test that still accepts an entry of exactly the TTL's age
hasValidPageCacheInclusive(fs, url, now) ==
    /\ existsSync(fs, getPagePath(url))
    /\ existsSync(fs, getMetadataPath(url))
    /\ now - fs[getMetadataPath(url)].data.timestamp <= PAGE_TTL_MS

hasValidPageCache(fs, url, now) ==
    /\ existsSync(fs, getPagePath(url))
    /\ existsSync(fs, getMetadataPath(url))
    /\ now - fs[getMetadataPath(url)].data.timestamp < PAGE_TTL_MS

getCachedPage(fs, url, now) ==
    IF ~hasValidPageCache(fs, url, now) THEN NULL
    ELSE fs[getPagePath(url)].data

\* files.filter(f => f.startsWith(hash)) of the download directory of the
\* URL's domain
matchingFiles(fs, url) ==
    {p \in DOMAIN fs : /\ p.dir = "downloads"
                       /\ p.domain = cacheGetDomain(url)
                       /\ p.hash = urlHash(url)}

hasValidDownloadCache(fs, url, now) ==
    /\ matchingFiles(fs, url) # {}
    /\ existsSync(fs, getMetadataPath(url))
    /\ now - fs[getMetadataPath(url)].data.timestamp < DOWNLOAD_TTL_MS

\* a savePage that also removes the downloads that are no longer valid
savePagePrunes(fs, url, html, status, now) ==
    LET kept == {p \in DOMAIN fs :
                    \/ p.dir # "downloads"
                    \/ \E u \in CacheUrls :
                          p \in matchingFiles(fs, u) /\ hasValidDownloadCache(fs, u, now)}
        pruned == [p \in kept |-> fs[p]]
    IN  saveMetadata(writeFileSync(pruned, getPagePath(url), html, now),
                     url, status, "text/html", byteLength(html), now)

savePage(fs, url, html, status, now) ==
    saveMetadata(writeFileSync(fs, getPagePath(url), html, now),
                 url, status, "text/html", byteLength(html), now)

\* the paths getCachedDownloadPath may return: files.find takes the first
\* match in directory order, which the file system decides
getCachedDownloadPath(fs, url) ==
    IF matchingFiles(fs, url) = {} THEN {NoPath}
    ELSE matchingFiles(fs, url)

saveDownload(fs, url, data, contentType, originalFilename, now) ==
    saveMetadata(writeFileSync(fs, getDownloadPath(url, originalFilename), data, now),
                 url, 200, contentType, byteLength(data), now)

getMetadata(fs, url) ==
    IF ~existsSync(fs, getMetadataPath(url)) THEN NoMetadata
    ELSE fs[getMetadataPath(url)].data

\* fs.rmSync(baseDir, { recursive: true })
clear(fs) ==
    NoFiles


----------------------------------------------------------------------------
(* The per-host rate limiter: utils/rate-limit.ts.  Times are milliseconds; *)
(* the clock and the random delays move in steps of RateStep.               *)

MIN_DELAY_MS ==
    700

MAX_DELAY_MS ==
    1200

\* the granularity of the clock of the limiter
RateStep ==
    350

\* Date.now() when the process starts: long after the epoch
StartTime ==
    5000

\* the limiter is observed until this long after the start
MaxRateTime ==
    1600

\* a delay with no lower bound
randomDelayFromZero ==
    {d \in 0..(MAX_DELAY_MS - 1) : d % RateStep = 0}

\* MIN_DELAY_MS + Math.random() * (MAX_DELAY_MS - MIN_DELAY_MS), with
\* Math.random() in [0, 1)
randomDelay ==
    {d \in MIN_DELAY_MS..(MAX_DELAY_MS - 1) : (d - MIN_DELAY_MS) % RateStep = 0}

\* the URLs rateLimitedWait is called with, on two hosts
RateUrls ==
    {"home", "p02"}

\* new URL(url).hostname
hostOf(url) ==
    hostnameOf(UrlText(url))

\* a limiter that looks at the latest request to any host
lastRequestOfAnyHost(map, host) ==
    IF DOMAIN map = {} THEN 0
    ELSE map[CHOOSE h \in DOMAIN map : \A g \in DOMAIN map : map[g] <= map[h]]

\* lastRequestByHost.get(host) || 0
lastRequestOf(map, host) ==
    IF host \in DOMAIN map THEN map[host] ELSE 0

\* lastRequestByHost.set(host, now)
mapSet(map, host, now) ==
    [h \in DOMAIN map \cup {host} |-> IF h = host THEN now ELSE map[h]]

\* new Map()
EmptyMap ==
    [h \in {} |-> 0]

\* the callers, numbered in the order of their calls
Callers ==
    {1, 2, 3}

\* a call that has not been made
idleCaller ==
    [pc |-> "idle", url |-> NULL, lastRequest |-> 0, now |-> 0,
     requiredDelay |-> 0, waitTime |-> 0]

RateEvent(caller, kind, at) ==
    [caller |-> caller, kind |-> kind, at |-> at]

\* the cache fresh, the limiter idle and no scoring call made
utilIdle ==
    /\ dateNow = StartTime
    /\ files = NoFiles
    /\ cacheCall = [op |-> "none", url |-> NULL, result |-> NoResult]
    /\ lastRequestByHost = EmptyMap
    /\ callers = [p \in Callers |-> idleCaller]
    /\ events = <<>>
    /\ scoring = NoScoring
    /\ extraction = NoExtraction
    /\ sharedIdle


----------------------------------------------------------------------------
(* runDiscovery, one action per awaited step of the state machine           *)

\* while (ctx.state !== 'DONE' && !isOverLimit(ctx)) switch (ctx.state)
LoopCheck ==
    /\ pc = "loop"
    /\ pc' = IF ctx.state # "DONE" /\ ~isOverLimit(ctx) THEN ctx.state ELSE "finally"
    /\ local' = noLocal
    /\ UNCHANGED <<utilVars, call, verdict, verdictSeg, request, world, ctx, clock>>

\* runSearchState: the known URL is opened and its title verified
SearchKnownUrl ==
    /\ pc = "SEARCH"
    /\ IF request.known_url = NULL
       THEN /\ pc' = "SEARCH:official"
            /\ local' = noLocal
            /\ UNCHANGED <<ctx, clock>>
       ELSE \E result \in openPage(request.known_url) : \E now \in Tick :
              IF result.throws
              THEN /\ pc' = "throwing"
                   /\ local' = noLocal
                   /\ UNCHANGED <<ctx, clock>>
              ELSE LET c1 == visit(ctx, request.known_url)
                       titleOk == hasFlag(PageTitle(result.finalUrl), "fair")
                   IN  /\ clock' = now
                       /\ pc' = "SEARCH:official"
                       /\ ctx' = IF result.success /\ result.extracted
                                 THEN IF titleOk THEN adoptOfficial(c1, result, TRUE)
                                      ELSE c1
                                 ELSE [c1 EXCEPT !.blockedUrls =
                                         Append(@, BlockedUrl(request.known_url,
                                                              result.status,
                                                              "Failed to open"))]
                       /\ local' = [noLocal EXCEPT !.result =
                                      OpenResult(request.known_url, result)]
    /\ UNCHANGED <<utilVars, call, verdict, verdictSeg, request, world>>

\* the official-site search: await webSearch(query) of queries.official
SearchOfficialQuery ==
    /\ pc = "SEARCH:official"
    /\ ctx.officialUrl = NULL
    /\ local.q <= 2
    /\ local.i = 0
    /\ \E now \in Tick : clock' = now
    /\ local' = [local EXCEPT !.results = webSearch("official", local.q, 5), !.i = 1]
    /\ UNCHANGED <<utilVars, call, verdict, verdictSeg, request, world, ctx, pc>>

\* one iteration of the result loop of the official-site search
SearchOfficialResult ==
    /\ pc = "SEARCH:official"
    /\ ctx.officialUrl = NULL
    /\ local.q <= 2
    /\ local.i >= 1
    /\ IF local.i > Len(local.results)
       THEN /\ local' = [local EXCEPT !.q = @ + 1, !.i = 0]
            /\ UNCHANGED <<ctx, clock, pc>>
       ELSE LET result == local.results[local.i]
            IN  IF visited(ctx, result.url) \/ ~hasFlag(result.title, "fair")
                THEN /\ local' = [local EXCEPT !.i = @ + 1]
                     /\ UNCHANGED <<ctx, clock, pc>>
                ELSE \E pageResult \in openPage(result.url) : \E now \in Tick :
                       IF pageResult.throws
                       THEN /\ pc' = "throwing"
                            /\ UNCHANGED <<ctx, clock, local>>
                       ELSE /\ clock' = now
                            /\ ctx' = IF pageResult.success
                                      THEN adoptOfficial(visit(ctx, result.url),
                                                         pageResult,
                                                         pageResult.extracted)
                                      ELSE visit(ctx, result.url)
                            /\ local' = [local EXCEPT
                                           !.i = @ + 1,
                                           !.result = OpenResult(result.url, pageResult)]
                            /\ pc' = pc
    /\ UNCHANGED <<utilVars, call, verdict, verdictSeg, request, world>>

\* the official-site search is over: found, or both queries exhausted
SearchOfficialDone ==
    /\ pc = "SEARCH:official"
    /\ ctx.officialUrl # NULL \/ local.q > 2
    /\ pc' = "SEARCH:resources"
    /\ local' = noLocal
    /\ UNCHANGED <<utilVars, call, verdict, verdictSeg, request, world, ctx, clock>>

\* one query of the resource searches: await webSearch, then the result loop
SearchResourceQuery ==
    /\ pc = "SEARCH:resources"
    /\ ctx.officialDomain # NoDomain
    /\ local.q <= 2 * Len(searchTerms)
    /\ LET term == searchTerms[(local.q + 1) \div 2]
           results == webSearch(term.kind, 2 - (local.q % 2), 3)
       IN  ctx' = scoreResults(ctx, results, 1, term.field)
    /\ \E now \in Tick : clock' = now
    /\ local' = [local EXCEPT !.q = @ + 1]
    /\ UNCHANGED <<utilVars, call, verdict, verdictSeg, request, world, pc>>

\* ctx.state = ctx.officialUrl ? 'ENTRY' : 'SELECT'
SearchFinish ==
    /\ pc = "SEARCH:resources"
    /\ ctx.officialDomain = NoDomain \/ local.q > 2 * Len(searchTerms)
    /\ ctx' = [ctx EXCEPT !.state = IF ctx.officialUrl # NULL THEN "ENTRY" ELSE "SELECT"]
    /\ pc' = "loop"
    /\ UNCHANGED <<utilVars, call, verdict, verdictSeg, request, world, clock, local>>

\* runEntryState up to its page loop
EntryBegin ==
    /\ pc = "ENTRY"
    /\ IF ctx.officialDomain = NoDomain
       THEN /\ ctx' = [ctx EXCEPT !.state = "SELECT"]
            /\ pc' = "loop"
            /\ UNCHANGED local
       ELSE /\ local' = [local EXCEPT !.list = sliceTo(unique(ctx.entryPages), 5),
                                      !.i = 1]
            /\ pc' = "ENTRY:page"
            /\ UNCHANGED ctx
    /\ UNCHANGED <<utilVars, call, verdict, verdictSeg, request, world, clock>>

\* one iteration of the page loop of runEntryState
EntryPage ==
    /\ pc = "ENTRY:page"
    /\ local.i <= Len(local.list)
    /\ ~isOverLimit(ctx)
    /\ LET url == local.list[local.i]
       IN  IF visited(ctx, url)
           THEN /\ local' = [local EXCEPT !.i = @ + 1]
                /\ UNCHANGED <<ctx, clock, pc>>
           ELSE \E result \in openPage(url) : \E now \in Tick :
                  IF result.throws
                  THEN /\ pc' = "throwing"
                       /\ UNCHANGED <<ctx, clock, local>>
                  ELSE LET c1 == visit(ctx, url)
                       IN  /\ clock' = now
                           /\ local' = [local EXCEPT
                                          !.i = @ + 1,
                                          !.result = OpenResult(url, result)]
                           /\ pc' = pc
                           /\ ctx' =
                                IF ~result.success \/ ~result.extracted
                                THEN IF result.status \in {401, 403}
                                     THEN [c1 EXCEPT !.blockedUrls =
                                             Append(@, BlockedUrl(url, result.status,
                                                                  "Access denied"))]
                                     ELSE c1
                                ELSE entryLinks(c1, PageLinks(result.finalUrl))
    /\ UNCHANGED <<utilVars, call, verdict, verdictSeg, request, world>>

\* the page loop ends (exhausted, or broken off over the limit)
EntryFinish ==
    /\ pc = "ENTRY:page"
    /\ local.i > Len(local.list) \/ isOverLimit(ctx)
    /\ ctx' = [ctx EXCEPT !.state = "DOWNLOADS"]
    /\ pc' = "loop"
    /\ UNCHANGED <<utilVars, call, verdict, verdictSeg, request, world, clock, local>>

\* runDownloadsState up to its download loop: the download centre is
\* opened and the PDF pool prioritized
DownloadsCenter ==
    /\ pc = "DOWNLOADS"
    /\ IF ctx.officialDomain = NoDomain
       THEN /\ ctx' = [ctx EXCEPT !.state = "SELECT"]
            /\ pc' = "loop"
            /\ UNCHANGED <<clock, local>>
       ELSE IF ctx.downloadCenterUrl # NULL /\ ~visited(ctx, ctx.downloadCenterUrl)
       THEN \E result \in openPage(ctx.downloadCenterUrl) : \E now \in Tick :
              IF result.throws
              THEN /\ pc' = "throwing"
                   /\ UNCHANGED <<ctx, clock, local>>
              ELSE LET c1 == visit(ctx, ctx.downloadCenterUrl)
                       c2 == IF result.success /\ result.extracted
                             THEN downloadCenterLinks(c1, PageLinks(result.finalUrl))
                             ELSE c1
                   IN  /\ clock' = now
                       /\ ctx' = c2
                       /\ local' = [local EXCEPT
                                      !.list = prioritizePdfs(unique(c2.pdfUrls),
                                                              c2.candidates),
                                      !.i = 1,
                                      !.result = OpenResult(ctx.downloadCenterUrl, result)]
                       /\ pc' = "DOWNLOADS:file"
       ELSE /\ local' = [local EXCEPT
                           !.list = prioritizePdfs(unique(ctx.pdfUrls), ctx.candidates),
                           !.i = 1]
            /\ pc' = "DOWNLOADS:file"
            /\ UNCHANGED <<ctx, clock>>
    /\ UNCHANGED <<utilVars, call, verdict, verdictSeg, request, world>>

\* one iteration of the download loop
DownloadFile ==
    /\ pc = "DOWNLOADS:file"
    /\ local.i <= Len(local.list)
    /\ ~(isOverLimit(ctx) \/ ctx.downloads >= MAX_DOWNLOADS)
    /\ LET url == local.list[local.i]
       IN  \E result \in downloadFile(url) : \E now \in Tick :
              IF result.throws
              THEN /\ pc' = "throwing"
                   /\ UNCHANGED <<ctx, clock, local>>
              ELSE LET c1 == [ctx EXCEPT !.downloads = @ + 1]
                   IN  /\ clock' = now
                       /\ local' = [local EXCEPT !.i = @ + 1]
                       /\ pc' = pc
                       /\ ctx' =
                            IF result.success
                            THEN [c1 EXCEPT !.output.debug.downloaded_files =
                                    Append(@, [url |-> url,
                                               isPdfPath |-> result.isPdfPath])]
                            ELSE [c1 EXCEPT !.blockedUrls =
                                    Append(@, BlockedUrl(url, NULL, "Download failed"))]
    /\ UNCHANGED <<utilVars, call, verdict, verdictSeg, request, world>>

\* the download loop ends (exhausted, or broken off at a limit)
DownloadsFinish ==
    /\ pc = "DOWNLOADS:file"
    /\ local.i > Len(local.list) \/ isOverLimit(ctx) \/ ctx.downloads >= MAX_DOWNLOADS
    /\ ctx' = [ctx EXCEPT !.state = "PDF_PARSE"]
    /\ pc' = "loop"
    /\ UNCHANGED <<utilVars, call, verdict, verdictSeg, request, world, clock, local>>

\* one iteration of the file loop of runPdfParseState
PdfParseFile ==
    /\ pc = "PDF_PARSE"
    /\ local.i < Len(ctx.output.debug.downloaded_files)
    /\ LET file == ctx.output.debug.downloaded_files[local.i + 1]
       IN  IF ~file.isPdfPath
           THEN UNCHANGED <<ctx, clock>>
           ELSE \E parsed \in parsePdf(file) : \E now \in Tick :
                  /\ clock' = now
                  /\ ctx' = IF parsed.success
                            THEN parsedPdf(ctx, file, parsed.content)
                            ELSE ctx
    /\ local' = [local EXCEPT !.i = @ + 1]
    /\ UNCHANGED <<utilVars, call, verdict, verdictSeg, request, world, pc>>

\* every downloaded file has been handled
PdfParseFinish ==
    /\ pc = "PDF_PARSE"
    /\ local.i >= Len(ctx.output.debug.downloaded_files)
    /\ ctx' = [ctx EXCEPT !.state = "SELECT"]
    /\ pc' = "loop"
    /\ UNCHANGED <<utilVars, call, verdict, verdictSeg, request, world, clock, local>>

\* runSelectState awaits nothing
Select ==
    /\ pc = "SELECT"
    /\ ctx' = runSelectState(ctx)
    /\ pc' = "loop"
    /\ UNCHANGED <<utilVars, call, verdict, verdictSeg, request, world, clock, local>>

\* finally { await closeBrowser() }, then the output is finalized and
\* returned
Return ==
    /\ pc = "finally"
    /\ ctx' = [ctx EXCEPT !.output.debug.blocked_urls = ctx.blockedUrls,
                          !.output.email_draft_if_missing = generateEmailDraft(ctx.output)]
    /\ pc' = "returned"
    /\ UNCHANGED <<utilVars, call, verdict, verdictSeg, request, world, clock, local>>

\* finally { await closeBrowser() } on the way out of a rejected handler:
\* there is no catch clause, the rejection reaches the caller
Rethrow ==
    /\ pc = "throwing"
    /\ pc' = "thrown"
    /\ UNCHANGED <<utilVars, call, verdict, verdictSeg, request, world, ctx, clock, local>>


----------------------------------------------------------------------------
(* The specification of a run                                               *)

KnownUrls ==
    {NULL, "home", "mirror", "bad"}

\* the page-open maximum of a run: the constant of the code, or 0
PageOpenMaxima ==
    {0, MAX_PAGE_OPENS}

Requests ==
    [known_url : KnownUrls, fair_name : {"IRE 2026"}, maxPageOpens : PageOpenMaxima]

\* steady: every collaborator succeeds; flaky: any fetch or parse may fail;
\* offline: no page can be opened (the browser runtime is missing and the
\* cache is empty)
Worlds ==
    [kind : {"flaky", "steady", "offline"}, searchUp : BOOLEAN, titleOk : BOOLEAN]

NoVerdict ==
    [allowed |-> FALSE, reason |-> "none", type |-> "none"]

NoCall ==
    [url |-> <<>>, officialDomain |-> <<>>, fairName |-> <<>>]

Init ==
    /\ request \in Requests
    /\ world \in Worlds
    /\ ctx = initialContext
    /\ pc = "loop"
    /\ clock = 0
    /\ local = noLocal
    /\ call = NoCall
    /\ verdict = NoVerdict
    /\ verdictSeg = NoVerdict
    /\ utilIdle

Next ==
    \/ LoopCheck
    \/ SearchKnownUrl
    \/ SearchOfficialQuery
    \/ SearchOfficialResult
    \/ SearchOfficialDone
    \/ SearchResourceQuery
    \/ SearchFinish
    \/ EntryBegin
    \/ EntryPage
    \/ EntryFinish
    \/ DownloadsCenter
    \/ DownloadFile
    \/ DownloadsFinish
    \/ PdfParseFile
    \/ PdfParseFinish
    \/ Select
    \/ Return
    \/ Rethrow

Spec ==
    Init /\ [][Next]_vars

Terminated ==
    pc \in {"returned", "thrown"}

\* Every awaited call settles and the event loop resumes the run: weak
\* fairness of Next.  A step is possible exactly until the run has returned
\* or thrown, so WF_vars(Next) is written with Terminated in the place of
\* ~ENABLED <<Next>>_vars.
LiveSpec ==
    Init /\ [][Next]_vars /\ (<>[]Terminated \/ []<><<Next>>_vars)

----------------------------------------------------------------------------
(* The specification of single checkDomain calls                            *)


U_ge26ire ==
    <<"h","t","t","p","s",":","/","/","g","e","2","6","i","r","e",".","m","a","p","y","o","u","r","s","h","o","w",".","c","o","m","/","x">>

U_ire2026 ==
    <<"h","t","t","p","s",":","/","/","i","r","e","2","0","2","6",".","m","a","p","y","o","u","r","s","h","o","w",".","c","o","m","/","x">>

U_tire ==
    <<"h","t","t","p","s",":","/","/","t","i","r","e",".","m","a","p","y","o","u","r","s","h","o","w",".","c","o","m","/">>

U_slash_ire ==
    <<"h","t","t","p","s",":","/","/","x",".","m","a","p","y","o","u","r","s","h","o","w",".","c","o","m","/","i","r","e","/">>

U_official_pdf ==
    <<"h","t","t","p","s",":","/","/","w","w","w",".","i","r","e","-","e","x","p","o",".","c","o","m","/","a",".","p","d","f">>

U_subdomain_pdf ==
    <<"h","t","t","p","s",":","/","/","d","o","c","s",".","i","r","e","-","e","x","p","o",".","c","o","m","/","m",".","p","d","f">>

U_cdn ==
    <<"h","t","t","p","s",":","/","/","d","1",".","c","l","o","u","d","f","r","o","n","t",".","n","e","t","/","f",".","p","d","f">>

U_cdn_platform ==
    <<"h","t","t","p","s",":","/","/","m","a","p","y","o","u","r","s","h","o","w",".","c","o","m",".","f","a","s","t","l","y",".","n","e","t","/">>

U_foreign ==
    <<"h","t","t","p","s",":","/","/","c","e","s","2","0","2","6",".","e","x","a","m","p","l","e",".","o","r","g","/">>

U_foreign_platform ==
    <<"h","t","t","p","s",":","/","/","c","e","s","2","0","2","6",".","a","2","z",".","e","v","e","n","t","s","/">>

U_foreign_named ==
    <<"h","t","t","p","s",":","/","/","e","x","a","m","p","l","e",".","o","r","g","/","c","e","s","2","0","2","6","/","i","r","e","/">>

U_external ==
    <<"h","t","t","p","s",":","/","/","e","x","a","m","p","l","e",".","o","r","g","/">>

U_invalid ==
    <<"n","o","t"," ","a"," ","u","r","l">>

U_fruit ==
    <<"h","t","t","p","s",":","/","/","f","r","u","i","t","l","o","g","i","s","t","i","c","a",".","e","x","p","o","c","a","d",".","c","o","m","/">>

U_fruit_inner ==
    <<"h","t","t","p","s",":","/","/","m","y","f","r","u","i","t","l","o","g","i","s","t","i","c","a","2",".","e","x","p","o","c","a","d",".","c","o","m","/">>

D_www ==
    <<"w","w","w",".","i","r","e","-","e","x","p","o",".","c","o","m">>

D_bare ==
    <<"i","r","e","-","e","x","p","o",".","c","o","m">>

D_platform ==
    <<"i","r","e","2","0","2","6",".","m","a","p","y","o","u","r","s","h","o","w",".","c","o","m">>

N_IRE ==
    <<"I","R","E">>

N_IRE2026 ==
    <<"I","R","E"," ","2","0","2","6">>

N_Fruit ==
    <<"F","r","u","i","t"," ","L","o","g","i","s","t","i","c","a">>

N_CES ==
    <<"C","E","S">>



GuardUrls ==
    {U_ge26ire, U_ire2026, U_tire, U_slash_ire, U_official_pdf, U_subdomain_pdf,
     U_cdn, U_cdn_platform, U_foreign, U_foreign_platform, U_foreign_named,
     U_external, U_invalid, U_fruit, U_fruit_inner}

GuardDomains ==
    {D_www, D_bare, D_platform}

GuardNames ==
    {N_IRE, N_IRE2026, N_Fruit, N_CES}

GuardInit ==
    /\ call \in [url : GuardUrls, officialDomain : GuardDomains, fairName : GuardNames]
    /\ verdict = NoVerdict
    /\ verdictSeg = NoVerdict
    /\ pc = "guard"
    /\ request = [known_url |-> NULL, fair_name |-> "IRE 2026",
                  maxPageOpens |-> MAX_PAGE_OPENS]
    /\ world = [kind |-> "steady", searchUp |-> TRUE, titleOk |-> TRUE]
    /\ ctx = initialContext
    /\ clock = 0
    /\ local = noLocal
    /\ utilIdle

\* checkDomain(url, officialDomain, fairName), by both copies of the guard
GuardCheck ==
    /\ pc = "guard"
    /\ verdict' = checkDomain(call.url, call.officialDomain, call.fairName)
    /\ verdictSeg' = checkDomainSeg(call.url, call.officialDomain, call.fairName)
    /\ pc' = "checked"
    /\ UNCHANGED <<utilVars, call, request, world, ctx, clock, local>>

GuardNext ==
    GuardCheck

GuardSpec ==
    GuardInit /\ [][GuardNext]_vars


----------------------------------------------------------------------------
(* The specification of the cache: any sequence of CacheManager calls, at   *)
(* instants around the two TTL boundaries                                   *)

Minute ==
    60 * 1000

\* the instants at which the cache is used, in minutes after the start:
\* both sides of 24 hours and of 7 days after the start
CacheMinutes ==
    {0, 1439, 1440, 1441, 10079, 10080, 10081}

CacheInstants ==
    {StartTime + m * Minute : m \in CacheMinutes}

\* originalFilename: absent, or a name with its own extension
OriginalFilenames ==
    {<<>>, <<"m","a","n","u","a","l",".","p","d","f">>}

CacheCall(op, url, result) ==
    [op |-> op, url |-> url, result |-> result]

CacheInit ==
    /\ request = [known_url |-> NULL, fair_name |-> "IRE 2026",
                  maxPageOpens |-> MAX_PAGE_OPENS]
    /\ world = [kind |-> "steady", searchUp |-> TRUE, titleOk |-> TRUE]
    /\ ctx = initialContext
    /\ pc = "cache"
    /\ clock = 0
    /\ local = noLocal
    /\ call = NoCall
    /\ verdict = NoVerdict
    /\ verdictSeg = NoVerdict
    /\ utilIdle

\* what a cache call leaves alone
cacheFrame ==
    UNCHANGED <<engineVars, dateNow, lastRequestByHost, callers, events, scoring,
                extraction, browser, instances, runs, agent>>

CacheHasValidPageCache ==
    /\ pc = "cache"
    /\ \E url \in CacheUrls :
          cacheCall' = CacheCall("hasValidPageCache", url,
              [NoResult EXCEPT !.valid = hasValidPageCache(files, url, dateNow)])
    /\ UNCHANGED files
    /\ cacheFrame

CacheGetCachedPage ==
    /\ pc = "cache"
    /\ \E url \in CacheUrls :
          cacheCall' = CacheCall("getCachedPage", url,
              [NoResult EXCEPT !.data = getCachedPage(files, url, dateNow)])
    /\ UNCHANGED files
    /\ cacheFrame

CacheSavePage ==
    /\ pc = "cache"
    /\ \E url \in CacheUrls : \E html \in PagePayloads :
          /\ files' = savePage(files, url, html, 200, dateNow)
          /\ cacheCall' = CacheCall("savePage", url, NoResult)
    /\ cacheFrame

CacheHasValidDownloadCache ==
    /\ pc = "cache"
    /\ \E url \in CacheUrls :
          cacheCall' = CacheCall("hasValidDownloadCache", url,
              [NoResult EXCEPT !.valid = hasValidDownloadCache(files, url, dateNow)])
    /\ UNCHANGED files
    /\ cacheFrame

CacheGetCachedDownloadPath ==
    /\ pc = "cache"
    /\ \E url \in CacheUrls : \E path \in getCachedDownloadPath(files, url) :
          cacheCall' = CacheCall("getCachedDownloadPath", url,
                                 [NoResult EXCEPT !.path = path])
    /\ UNCHANGED files
    /\ cacheFrame

CacheSaveDownload ==
    /\ pc = "cache"
    /\ \E url \in CacheUrls : \E data \in DownloadPayloads :
       \E originalFilename \in OriginalFilenames :
          /\ files' = saveDownload(files, url, data, "application/pdf",
                                   originalFilename, dateNow)
          /\ cacheCall' = CacheCall("saveDownload", url,
                [NoResult EXCEPT !.path = getDownloadPath(url, originalFilename)])
    /\ cacheFrame

CacheGetMetadata ==
    /\ pc = "cache"
    /\ \E url \in CacheUrls :
          cacheCall' = CacheCall("getMetadata", url,
                                 [NoResult EXCEPT !.metadata = getMetadata(files, url)])
    /\ UNCHANGED files
    /\ cacheFrame

CacheClear ==
    /\ pc = "cache"
    /\ files' = clear(files)
    /\ cacheCall' = CacheCall("clear", NULL, NoResult)
    /\ cacheFrame

\* time passes between two calls
CacheAdvance ==
    /\ pc = "cache"
    /\ \E later \in CacheInstants : later > dateNow /\ dateNow' = later
    /\ UNCHANGED <<engineVars, files, cacheCall, lastRequestByHost, callers, events,
                   scoring, extraction, browser, instances, runs, agent>>

CacheNext ==
    \/ CacheHasValidPageCache
    \/ CacheGetCachedPage
    \/ CacheSavePage
    \/ CacheHasValidDownloadCache
    \/ CacheGetCachedDownloadPath
    \/ CacheSaveDownload
    \/ CacheGetMetadata
    \/ CacheClear
    \/ CacheAdvance

CacheSpec ==
    CacheInit /\ [][CacheNext]_vars


----------------------------------------------------------------------------
(* The specification of the rate limiter: the callers of rateLimitedWait,   *)
(* each making one call; a call runs without interruption up to its sleep   *)
(* and, when its timer has fired, from the sleep to its return              *)

RateInit ==
    /\ request = [known_url |-> NULL, fair_name |-> "IRE 2026",
                  maxPageOpens |-> MAX_PAGE_OPENS]
    /\ world = [kind |-> "steady", searchUp |-> TRUE, titleOk |-> TRUE]
    /\ ctx = initialContext
    /\ pc = "rate"
    /\ clock = 0
    /\ local = noLocal
    /\ call = NoCall
    /\ verdict = NoVerdict
    /\ verdictSeg = NoVerdict
    /\ utilIdle

\* what the limiter leaves alone
rateFrame ==
    UNCHANGED <<engineVars, files, cacheCall, scoring, extraction, browser,
                instances, runs, agent>>

\* rateLimitedWait(url), lines 15-23 and, when there is nothing to wait
\* for, line 26
RateCall(p, url) ==
    /\ pc = "rate"
    /\ callers[p].pc = "idle"
    /\ \A q \in Callers : q < p => callers[q].pc # "idle"
    /\ \E requiredDelay \in randomDelay :
          LET host == hostOf(url)
              lastRequest == lastRequestOf(lastRequestByHost, host)
              now == dateNow
              elapsed == now - lastRequest
          IN  IF elapsed < requiredDelay
              THEN /\ callers' = [callers EXCEPT ![p] =
                          [pc |-> "sleep", url |-> url, lastRequest |-> lastRequest,
                           now |-> now, requiredDelay |-> requiredDelay,
                           waitTime |-> requiredDelay - elapsed]]
                   /\ events' = Append(events, RateEvent(p, "call", dateNow))
                   /\ UNCHANGED lastRequestByHost
              ELSE /\ callers' = [callers EXCEPT ![p] =
                          [pc |-> "done", url |-> url, lastRequest |-> lastRequest,
                           now |-> now, requiredDelay |-> requiredDelay,
                           waitTime |-> 0]]
                   /\ events' = events \o <<RateEvent(p, "call", dateNow),
                                            RateEvent(p, "return", dateNow)>>
                   /\ lastRequestByHost' = mapSet(lastRequestByHost, host, dateNow)
    /\ UNCHANGED dateNow
    /\ rateFrame

\* the timer of sleep(waitTime) has fired: line 26 and the return
RateWake(p) ==
    /\ pc = "rate"
    /\ callers[p].pc = "sleep"
    /\ dateNow >= callers[p].now + callers[p].waitTime
    /\ lastRequestByHost' = mapSet(lastRequestByHost, hostOf(callers[p].url), dateNow)
    /\ callers' = [callers EXCEPT ![p].pc = "done"]
    /\ events' = Append(events, RateEvent(p, "return", dateNow))
    /\ UNCHANGED dateNow
    /\ rateFrame

\* time passes
RateAdvance ==
    /\ pc = "rate"
    /\ dateNow < StartTime + MaxRateTime
    /\ dateNow' = dateNow + RateStep
    /\ UNCHANGED <<lastRequestByHost, callers, events>>
    /\ rateFrame

RateNext ==
    \/ \E p \in Callers, url \in RateUrls : RateCall(p, url)
    \/ \E p \in Callers : RateWake(p)
    \/ RateAdvance

RateSpec ==
    RateInit /\ [][RateNext]_vars


----------------------------------------------------------------------------
(* The specification of the scorer: a call of scoreUrlForField on a URL and *)
(* on the URL with a keyword of the field added, or a call of selectBest on *)
(* a candidate list                                                         *)

\* yearPattern.test(s) of the regular expression /(year|year+1)/g whose
\* lastIndex is from: the search starts at from; a match leaves lastIndex
\* at its end, a failure at 0
yearPatternTest(s, from) ==
    LET hits == {i \in (from + 1)..(Len(s) - 3) :
                    startsWithAt(s, CurrentYear, i) \/ startsWithAt(s, NextYear, i)}
    IN  IF hits = {} THEN [matched |-> FALSE, lastIndex |-> 0]
        ELSE [matched |-> TRUE,
              lastIndex |-> (CHOOSE i \in hits : \A j \in hits : i <= j) + 3]

\* scoreFreshness(url, content) on the characters: the two tests share one
\* regular expression object, so the content test starts at the lastIndex
\* the URL test left; an undefined or empty content is not tested
scoreFreshnessText(url, content) ==
    LET urlTest == yearPatternTest(url, 0)
        contentTest == yearPatternTest(content, urlTest.lastIndex)
    IN  Min((IF urlTest.matched THEN 5 ELSE 0)
              + (IF content # <<>> /\ contentTest.matched THEN 5 ELSE 0),
            WEIGHTS.freshness)

\* the URLs scoreFreshness is examined with: without a year, with a year in
\* the host, with a year at the end of the path
FreshnessUrls ==
    {UrlText("home"), UrlText("foreign"), UrlText("p01")}

\* how far into a content its year stands, in characters
YearOffsets ==
    {0, 4, 12, 20, 60}

\* the contents scoreFreshness is examined with: none, one without a year,
\* and contents with the current or the next year at each offset
FreshnessContents ==
    {<<>>, <<"n","o"," ","y","e","a","r">>}
        \cup {Filler(n) \o year \o <<" ","f","a","i","r">> :
                 n \in YearOffsets, year \in {CurrentYear, NextYear}}

\* the calls of scoreFreshness to make
FreshnessCalls ==
    {[ScoringCall("scoreFreshness", "none", url, <<>>, <<>>, 0, 0, <<>>, NoSelection)
         EXCEPT !.content = content] :
        url \in FreshnessUrls, content \in FreshnessContents}

ScoreInit ==
    /\ request = [known_url |-> NULL, fair_name |-> "IRE 2026",
                  maxPageOpens |-> MAX_PAGE_OPENS]
    /\ world = [kind |-> "steady", searchUp |-> TRUE, titleOk |-> TRUE]
    /\ ctx = initialContext
    /\ pc = "score"
    /\ clock = 0
    /\ local = noLocal
    /\ call = NoCall
    /\ verdict = NoVerdict
    /\ verdictSeg = NoVerdict
    /\ dateNow = StartTime
    /\ files = NoFiles
    /\ cacheCall = [op |-> "none", url |-> NULL, result |-> NoResult]
    /\ lastRequestByHost = EmptyMap
    /\ callers = [p \in Callers |-> idleCaller]
    /\ events = <<>>
    /\ scoring \in UrlScoringCalls \cup SelectCalls \cup FreshnessCalls
    /\ extraction = NoExtraction
    /\ sharedIdle

\* what a scoring call leaves alone
scoreFrame ==
    UNCHANGED <<call, verdict, verdictSeg, request, world, ctx, clock, local,
                dateNow, files, cacheCall, lastRequestByHost, callers, events,
                extraction, browser, instances, runs, agent>>

\* scoreUrlForField(url, field), and again with the keyword added to the URL
ScoreUrlForField ==
    /\ pc = "score"
    /\ scoring.op = "scoreUrlForField"
    /\ scoring' = [scoring EXCEPT
                      !.before = scoreUrlForFieldText(scoring.url, scoring.field),
                      !.after = scoreUrlForFieldText(scoring.changed, scoring.field)]
    /\ pc' = "scored"
    /\ scoreFrame

\* selectBest(candidates, field)
ScoreSelectBest ==
    /\ pc = "score"
    /\ scoring.op = "selectBest"
    /\ scoring' = [scoring EXCEPT !.result = selectBest(scoring.candidates)]
    /\ pc' = "scored"
    /\ scoreFrame

\* scoreFreshness(url, content)
ScoreFreshness ==
    /\ pc = "score"
    /\ scoring.op = "scoreFreshness"
    /\ scoring' = [scoring EXCEPT
                      !.after = scoreFreshnessText(scoring.url, scoring.content)]
    /\ pc' = "scored"
    /\ scoreFrame

ScoreNext ==
    \/ ScoreUrlForField
    \/ ScoreSelectBest
    \/ ScoreFreshness

ScoreSpec ==
    ScoreInit /\ [][ScoreNext]_vars



----------------------------------------------------------------------------
(* The specification of the schedule extractor: a call of                   *)
(* extractDateTimeFromContext on a context, or of extractScheduleFromText   *)
(* on a text                                                                *)

ExtractInit ==
    /\ request = [known_url |-> NULL, fair_name |-> "IRE 2026",
                  maxPageOpens |-> MAX_PAGE_OPENS]
    /\ world = [kind |-> "steady", searchUp |-> TRUE, titleOk |-> TRUE]
    /\ ctx = initialContext
    /\ pc = "extract"
    /\ clock = 0
    /\ local = noLocal
    /\ call = NoCall
    /\ verdict = NoVerdict
    /\ verdictSeg = NoVerdict
    /\ dateNow = StartTime
    /\ files = NoFiles
    /\ cacheCall = [op |-> "none", url |-> NULL, result |-> NoResult]
    /\ lastRequestByHost = EmptyMap
    /\ callers = [p \in Callers |-> idleCaller]
    /\ events = <<>>
    /\ scoring = NoScoring
    /\ extraction \in ContextCalls \cup TextCalls
    /\ sharedIdle

\* what a call of the extractor leaves alone
extractFrame ==
    UNCHANGED <<call, verdict, verdictSeg, request, world, ctx, clock, local,
                dateNow, files, cacheCall, lastRequestByHost, callers, events,
                scoring, browser, instances, runs, agent>>

\* extractDateTimeFromContext(context)
ExtractDateTimeFromContext ==
    /\ pc = "extract"
    /\ extraction.op = "extractDateTimeFromContext"
    /\ extraction' = [extraction EXCEPT
                         !.extracted = extractDateTimeFromContext(extraction.text)]
    /\ pc' = "extracted"
    /\ extractFrame

\* extractScheduleFromText(text, sourceUrl)
ExtractScheduleFromText ==
    /\ pc = "extract"
    /\ extraction.op = "extractScheduleFromText"
    /\ extraction' = [extraction EXCEPT
                         !.result = extractScheduleFromText(extraction.text, "p01")]
    /\ pc' = "extracted"
    /\ extractFrame

ExtractNext ==
    \/ ExtractDateTimeFromContext
    \/ ExtractScheduleFromText

ExtractSpec ==
    ExtractInit /\ [][ExtractNext]_vars


----------------------------------------------------------------------------
(* The specification of the shared browser: runDiscovery calls of one       *)
(* process, each opening pages that the web serves and closing the browser  *)
(* in its finally block; a step is what runs between two awaits             *)

BrowserInit ==
    /\ request = [known_url |-> NULL, fair_name |-> "IRE 2026",
                  maxPageOpens |-> MAX_PAGE_OPENS]
    /\ world = [kind |-> "steady", searchUp |-> TRUE, titleOk |-> TRUE]
    /\ ctx = initialContext
    /\ pc = "runs"
    /\ clock = 0
    /\ local = noLocal
    /\ call = NoCall
    /\ verdict = NoVerdict
    /\ verdictSeg = NoVerdict
    /\ utilIdle

\* what a step of a run leaves alone
browserFrame ==
    UNCHANGED <<engineVars, dateNow, files, cacheCall, lastRequestByHost, callers,
                events, scoring, extraction, agent>>

\* runDiscovery is called
StartRun(r) ==
    /\ runs[r].pc = "idle"
    /\ runs' = [runs EXCEPT ![r].pc = "running"]
    /\ UNCHANGED <<browser, instances>>
    /\ browserFrame

\* openPage(url) up to the await of ensureBrowser: the browser of the
\* module if there is one, a launch if there is none
EnsureBrowser(r) ==
    /\ runs[r].pc = "running"
    /\ Len(runs[r].results) < MaxOpens
    /\ runs' = [runs EXCEPT
                  ![r].pc = IF browser = NoBrowser THEN "launch" ELSE "newPage",
                  ![r].browserInstance = browser]
    /\ UNCHANGED <<browser, instances>>
    /\ browserFrame

\* chromium.launch() resolves: browser = the new instance
Launched(r) ==
    /\ runs[r].pc = "launch"
    /\ instances' = Append(instances, "open")
    /\ browser' = Len(instances) + 1
    /\ runs' = [runs EXCEPT ![r].pc = "newPage",
                            ![r].browserInstance = Len(instances) + 1]
    /\ browserFrame

\* browserInstance.newPage() resolves, or rejects because the browser has
\* been closed: the catch block returns the failure
NewPage(r) ==
    /\ runs[r].pc = "newPage"
    /\ runs' = IF instances[runs[r].browserInstance] = "open"
               THEN [runs EXCEPT ![r].pc = "goto"]
               ELSE [runs EXCEPT ![r].pc = "running",
                                 ![r].results = Append(@, "failed")]
    /\ UNCHANGED <<browser, instances>>
    /\ browserFrame

\* page.goto(url) and page.content() resolve with the page the web serves,
\* or reject because the browser has been closed meanwhile
Goto(r) ==
    /\ runs[r].pc = "goto"
    /\ runs' = [runs EXCEPT
                  ![r].pc = "running",
                  ![r].results =
                      Append(@, IF instances[runs[r].browserInstance] = "open"
                                THEN "ok" ELSE "failed")]
    /\ UNCHANGED <<browser, instances>>
    /\ browserFrame

\* the finally block of runDiscovery: closeBrowser() up to its await,
\* browser.close() called on the browser of the module
CloseBrowser(r) ==
    /\ runs[r].pc = "running"
    /\ IF browser # NoBrowser
       THEN /\ instances' = [instances EXCEPT ![browser] = "closed"]
            /\ runs' = [runs EXCEPT ![r].pc = "closing"]
       ELSE /\ runs' = [runs EXCEPT ![r].pc = "returned"]
            /\ UNCHANGED instances
    /\ UNCHANGED browser
    /\ browserFrame

\* browser.close() resolves: browser = null, and runDiscovery returns
Closed(r) ==
    /\ runs[r].pc = "closing"
    /\ browser' = NoBrowser
    /\ runs' = [runs EXCEPT ![r].pc = "returned"]
    /\ UNCHANGED instances
    /\ browserFrame

BrowserNext ==
    \E r \in Runs :
        \/ StartRun(r)
        \/ EnsureBrowser(r)
        \/ Launched(r)
        \/ NewPage(r)
        \/ Goto(r)
        \/ CloseBrowser(r)
        \/ Closed(r)

BrowserSpec ==
    BrowserInit /\ [][BrowserNext]_vars


----------------------------------------------------------------------------
(* claude-agent/claude-agent.ts: the loop of ClaudeAgent.run, a step being  *)
(* what runs between two awaits                                             *)

\* options.maxIterations || 30
DefaultMaxIterations ==
    30

\* the wrap-up warning is pushed at iteration maxIterations - WarningLead
WarningLead ==
    5

\* the largest maxIterations option examined besides the default
MaxAgentIterations ==
    8

\* the values of this.maxIterations: 0 and undefined give the default
AgentIterationLimits ==
    (1..MaxAgentIterations) \cup {DefaultMaxIterations}

Message(role, holds) ==
    [role |-> role, holds |-> holds]

\* what a step of the agent leaves alone
agentFrame ==
    UNCHANGED <<engineVars, dateNow, files, cacheCall, lastRequestByHost, callers,
                events, scoring, extraction, browser, instances, runs>>

AgentInit ==
    /\ request = [known_url |-> NULL, fair_name |-> "IRE 2026",
                  maxPageOpens |-> MAX_PAGE_OPENS]
    /\ world = [kind |-> "steady", searchUp |-> TRUE, titleOk |-> TRUE]
    /\ ctx = initialContext
    /\ pc = "agent"
    /\ clock = 0
    /\ local = noLocal
    /\ call = NoCall
    /\ verdict = NoVerdict
    /\ verdictSeg = NoVerdict
    /\ utilIdle

\* run(input) up to the loop: the browser is launched and the conversation
\* starts with the user message that holds the task and the screenshot
AgentRun(maxIterations) ==
    /\ agent.pc = "idle"
    /\ agent' = Agent("loop", maxIterations, 0, FALSE,
                      << Message("user", "task") >>)
    /\ agentFrame

\* the head of a loop iteration up to the await of messages.create: the
\* iteration is counted, the warning is pushed when five iterations are
\* left, and the request is sent with the messages
AgentRequest ==
    /\ agent.pc = "loop"
    /\ ~agent.done
    /\ agent.iteration < agent.maxIterations
    /\ agent' = [agent EXCEPT
                    !.pc = "create",
                    !.iteration = @ + 1,
                    !.messages =
                        IF agent.iteration + 1 = agent.maxIterations - WarningLead
                        THEN Append(@, Message("user", "warning"))
                        ELSE @]
    /\ agentFrame

\* messages.create resolves: the assistant message is pushed; without a
\* tool call the loop is left, otherwise the tools run and their results
\* are pushed as a user message
AgentResponse ==
    /\ agent.pc = "create"
    /\ \E toolUse \in BOOLEAN :
          agent' = IF toolUse
                   THEN [agent EXCEPT
                           !.pc = "loop",
                           !.messages = @ \o << Message("assistant", "tool_use"),
                                                Message("user", "tool_result") >>]
                   ELSE [agent EXCEPT
                           !.pc = "returned",
                           !.done = TRUE,
                           !.messages = Append(@, Message("assistant", "text"))]
    /\ agentFrame

\* messages.create or a tool rejects: the catch block of run, and the
\* output is returned
AgentFails ==
    /\ agent.pc = "create"
    /\ agent' = [agent EXCEPT !.pc = "returned"]
    /\ agentFrame

\* the loop ends at the iteration maximum
AgentLoopEnds ==
    /\ agent.pc = "loop"
    /\ agent.done \/ agent.iteration >= agent.maxIterations
    /\ agent' = [agent EXCEPT !.pc = "returned"]
    /\ agentFrame

AgentNext ==
    \/ \E maxIterations \in AgentIterationLimits : AgentRun(maxIterations)
    \/ AgentRequest
    \/ AgentResponse
    \/ AgentFails
    \/ AgentLoopEnds

AgentSpec ==
    AgentInit /\ [][AgentNext]_vars


----------------------------------------------------------------------------
(* The finalization of runDiscovery examined on its own: the state machine  *)
(* has ended with any combination of the five qualities                     *)

\* QualityLevel
QualityLevels ==
    {"strong", "weak", "missing"}

FinalizeInit ==
    /\ request = [known_url |-> NULL, fair_name |-> "IRE 2026",
                  maxPageOpens |-> MAX_PAGE_OPENS]
    /\ world = [kind |-> "steady", searchUp |-> TRUE, titleOk |-> TRUE]
    /\ \E quality \in [Fields -> QualityLevels] :
          ctx = [initialContext EXCEPT !.state = "DONE",
                                       !.output.quality = quality]
    /\ pc = "finally"
    /\ clock = 0
    /\ local = noLocal
    /\ call = NoCall
    /\ verdict = NoVerdict
    /\ verdictSeg = NoVerdict
    /\ utilIdle

FinalizeSpec ==
    FinalizeInit /\ [][Return]_vars

----------------------------------------------------------------------------
(* Properties of a run                                                      *)

output ==
    ctx.output

\* the run used the limits of the code, not a lowered page-open maximum
codeLimits ==
    request.maxPageOpens = MAX_PAGE_OPENS

allMissing ==
    \A f \in Fields : output.quality[f] = "missing"

\* C1: in every behaviour in which no awaited call rejects, the state-machine
\* loop is left after finitely many steps and the DiscoveryOutput is returned.
C1_Terminates ==
    [](pc # "throwing") => <>(pc = "returned")

\* a run that went through all five handlers, downloads included, and returned
C1_Witness ==
    /\ pc = "returned"
    /\ ctx.state = "DONE"
    /\ ctx.downloads > 0
    /\ Len(output.debug.visited_urls) > 1

\* C2: no exception raised while a state handler runs escapes runDiscovery;
\* a failing collaborator, the URL parse before the fetch included, never
\* makes the run end by throwing.
C2_NoExceptionEscapes ==
    pc # "thrown"

\* C3: when a budget check finds a budget exceeded before SELECT, the run
\* still executes SELECT and reaches DONE, so that the returned output
\* reflects the candidates gathered before the cut-off.
C3_CutOffRunsSelect ==
    (pc = "returned" /\ codeLimits) =>
        /\ ctx.state = "DONE"
        /\ \A f \in Fields :
              Len(ctx.candidates[f]) > 0 => Len(output.debug.candidates[f]) > 0

C5_CountersWithinLimits ==
    /\ ctx.pageOpens <= request.maxPageOpens
    /\ ctx.pageOpens <= 30
    /\ ctx.downloads <= 15

\* a run that used up the download budget, failed downloads counted
C5_Witness ==
    /\ ctx.downloads = 15
    /\ ctx.pageOpens > 0

\* C6: the state variable only moves forward along SEARCH, ENTRY, DOWNLOADS,
\* PDF_PARSE, SELECT, DONE, and a handler that gives control back to the loop
\* has moved it strictly forward, so that no handler runs twice.
C6_ForwardOnly ==
    [][/\ stateIndex(ctx'.state) >= stateIndex(ctx.state)
       /\ (pc \notin {"loop", "finally", "throwing"} /\ pc' = "loop") =>
             stateIndex(ctx'.state) > stateIndex(ctx.state)]_vars

\* the machine went through every state in order
C6_Witness ==
    /\ ctx.state = "DONE"
    /\ Len(output.debug.downloaded_files) > 0
    /\ pc = "loop"

\* strong needs a URL and an evidence snippet, missing has no URL
qualityInvariant(f) ==
    LET url == output.documents[DocumentKey(f)]
    IN  /\ output.quality[f] = "strong" =>
              (url # NULL /\ output.evidence[f].snippet # NULL)
        /\ output.quality[f] = "missing" => url = NULL

\* SELECT ran on a schedule whose entries were merged from PDFs
scheduleFromEntries ==
    ctx.state = "DONE" /\ hasEntries(output)

hasDatedEntry ==
    \/ \E k \in 1..Len(output.schedule.build_up) :
          output.schedule.build_up[k].date # NULL
    \/ \E k \in 1..Len(output.schedule.tear_down) :
          output.schedule.tear_down[k].date # NULL

\* C7 as stated: in the returned output, for each of the five fields, strong
\* implies a non-null document URL and evidence snippet, and missing implies
\* a null document URL.
C7_QualityInvariantAllFields ==
    pc = "returned" => \A f \in Fields : qualityInvariant(f)

\* C7: in the returned output the quality invariant holds for floorplan,
\* exhibitor_manual, rules and exhibitor_directory, and for schedule when no
\* schedule entries were merged; when SELECT ran with merged entries,
\* schedule_page_url stays null and the schedule quality is strong if some
\* entry has a date and weak otherwise.
C7_QualityInvariant ==
    pc = "returned" =>
        /\ \A f \in Fields :
              (f # "schedule" \/ ~scheduleFromEntries) => qualityInvariant(f)
        /\ scheduleFromEntries =>
              /\ output.documents.schedule_page_url = NULL
              /\ output.quality["schedule"] =
                    IF hasDatedEntry THEN "strong" ELSE "weak"

\* a returned output with a strong document field, a missing one whose best
\* candidate scored below the weak threshold, and a schedule from entries
C7_Witness ==
    /\ pc = "returned"
    /\ scheduleFromEntries
    /\ output.quality["schedule"] = "strong"
    /\ \E f \in Fields \ {"schedule"} : output.quality[f] = "strong"
    /\ \E f \in Fields \ {"schedule"} :
          output.quality[f] = "missing" /\ Len(ctx.candidates[f]) > 0

\* C8: if every openPage call fails, the returned output has official_url
\* null, all five quality fields missing and an empty schedule; if a known
\* URL was given, debug.blocked_urls has at least one record.
C8_AllPageOpensFail ==
    (world.kind = "offline" /\ codeLimits /\ pc = "returned") =>
        /\ output.official_url = NULL
        /\ allMissing
        /\ output.schedule.build_up = <<>>
        /\ output.schedule.tear_down = <<>>
        /\ request.known_url # NULL => Len(output.debug.blocked_urls) >= 1

\* the known URL and the search results all failed to open
C8_Witness ==
    /\ world.kind = "offline"
    /\ codeLimits
    /\ pc = "returned"
    /\ request.known_url # NULL
    /\ ctx.pageOpens > 1
    /\ Len(output.debug.blocked_urls) >= 1

----------------------------------------------------------------------------
(* Properties of checkDomain                                                *)

\* C9: for a fair-name word shorter than 5 characters checkDomain allows a
\* third-party-platform URL only if the word occurs in the URL between
\* URL-segment boundaries; with fair name "IRE" the guard of guards/domain.ts
\* denies https://ge26ire.mapyourshow.com/ and allows
\* https://ire2026.mapyourshow.com/.
C9_ShortNameOnSegmentBoundary ==
    (pc = "checked" /\ call.fairName = N_IRE /\ call.officialDomain = D_www) =>
        /\ call.url = U_ge26ire => ~verdict.allowed
        /\ call.url = U_ire2026 => verdict.allowed
        /\ (verdict.type = "third-party-platform" /\ verdict.allowed) =>
              fairNameInUrl(N_IRE, call.url)

\* the rule of a verdict's type applies to the call, no earlier rule
\* applies, and the verdict allows exactly the four allowed outcomes
firstApplicableRuleDecides(v, hasReference) ==
    LET urlDomain == getDomain(call.url)
        official == toLowerCase(call.officialDomain)
        exact == urlDomain # <<>> /\ urlDomain = official
        sub == urlDomain # <<>> /\ isSubdomainMatch(urlDomain, getBaseDomain(official))
        cdn == urlDomain # <<>> /\ isWhitelistedCdn(urlDomain)
        platform == urlDomain # <<>> /\ isThirdPartyPlatform(urlDomain)
        foreign == \E f \in 1..Len(FOREIGN_FAIR_PATTERNS) :
                      foreignPatternTest(FOREIGN_FAIR_PATTERNS[f], call.url)
    IN  /\ v.type \in DomainCheckTypes
        /\ v.type = "same-domain" <=> exact
        /\ v.type = "subdomain" <=> (sub /\ ~exact)
        /\ v.type = "whitelisted-cdn" <=> (cdn /\ ~sub /\ ~exact)
        /\ v.type = "third-party-platform" <=> (platform /\ ~cdn /\ ~sub /\ ~exact)
        /\ v.type = "foreign-fair" => (foreign /\ ~platform /\ ~cdn /\ ~sub /\ ~exact)
        /\ v.allowed <=>
              \/ v.type \in {"same-domain", "subdomain", "whitelisted-cdn"}
              \/ v.type = "third-party-platform" /\ hasReference
        /\ v.type \in {"foreign-fair", "external"} => ~v.allowed
        /\ urlDomain = <<>> => (~v.allowed /\ v.type = "external")

\* C10: checkDomain evaluates its rules in the order exact host, same base
\* domain, whitelisted CDN suffix, third-party platform, foreign-fair
\* pattern, external, and the first applicable rule decides; the result is
\* allowed exactly when its type is same-domain, subdomain, whitelisted-cdn,
\* or third-party-platform with a fair-name reference.  Both copies of the
\* guard.
C10_FirstApplicableRuleDecides ==
    pc = "checked" =>
        /\ firstApplicableRuleDecides(verdict,
                                      hasFairReference(call.url, call.fairName))
        /\ firstApplicableRuleDecides(verdictSeg,
                                      hasFairReferenceSeg(call.url, call.fairName))

\* a URL on a whitelisted CDN whose host also names a third-party platform:
\* the CDN rule, which comes first, decides
C10_Witness ==
    /\ pc = "checked"
    /\ call.url = U_cdn_platform
    /\ verdict.type = "whitelisted-cdn"
    /\ verdict.allowed
    /\ verdictSeg = verdict

----------------------------------------------------------------------------
(* The cache                                                                *)

\* the time of the latest download written for the URL
latestDownload(url) ==
    LET times == {files[p].mtime : p \in matchingFiles(files, url)}
    IN  CHOOSE t \in times : \A s \in times : s <= t

C12_NoStaleEntry ==
    \A url \in CacheUrls :
       /\ getCachedPage(files, url, dateNow) # NULL
             => dateNow - files[getPagePath(url)].mtime < PAGE_TTL_MS
       /\ hasValidDownloadCache(files, url, dateNow)
             => dateNow - latestDownload(url) < DOWNLOAD_TTL_MS

ReadOps ==
    {"hasValidPageCache", "getCachedPage", "hasValidDownloadCache",
     "getCachedDownloadPath", "getMetadata"}

\* C13: the five reading calls leave every cache file as it is, a file
\* disappears only by clear(), and as long as a payload file exists
\* getMetadata returns the metadata of its URL
C13_ExpiryDeletesNothing ==
    [][/\ cacheCall'.op \in ReadOps => files' = files
       /\ (\E p \in DOMAIN files : p \notin DOMAIN files') => cacheCall'.op = "clear"
       /\ \A url \in CacheUrls :
             (existsSync(files', getPagePath(url)) \/ matchingFiles(files', url) # {})
                => getMetadata(files', url).url = url]_vars

\* an expired page was asked for: the answer was null, and the page file
\* and its metadata are still there
C13_Witness ==
    \E url \in CacheUrls :
       /\ cacheCall.op = "getCachedPage"
       /\ cacheCall.url = url
       /\ cacheCall.result.data = NULL
       /\ existsSync(files, getPagePath(url))
       /\ dateNow - files[getPagePath(url)].mtime >= PAGE_TTL_MS
       /\ ~hasValidPageCache(files, url, dateNow)
       /\ getMetadata(files, url).url = url

----------------------------------------------------------------------------
(* The rate limiter                                                         *)

\* where caller p's call and its return stand in the order of events
callIndex(p) ==
    CHOOSE i \in 1..Len(events) : events[i].caller = p /\ events[i].kind = "call"

returnIndex(p) ==
    CHOOSE i \in 1..Len(events) : events[i].caller = p /\ events[i].kind = "return"

\* the instant at which caller p's call completed
returnedAt(p) ==
    events[returnIndex(p)].at

\* two completed calls for the same host
sameHostDone(p, q) ==
    /\ p # q
    /\ callers[p].pc = "done"
    /\ callers[q].pc = "done"
    /\ hostOf(callers[p].url) = hostOf(callers[q].url)

\* C14: when a call for a host starts after another call for that host has
\* completed, the two calls complete at least 700 ms apart
C14_SequentialCallsSpaced ==
    \A p, q \in Callers :
       (sameHostDone(p, q) /\ returnIndex(p) < callIndex(q))
          => returnedAt(q) - returnedAt(p) >= MIN_DELAY_MS

\* three calls for one host, each made after the one before it completed,
\* the second completing exactly 700 ms after the first
C14_Witness ==
    /\ \A p \in Callers : callers[p].pc = "done"
    /\ sameHostDone(1, 2)
    /\ sameHostDone(2, 3)
    /\ returnIndex(1) < callIndex(2)
    /\ returnIndex(2) < callIndex(3)
    /\ returnedAt(2) - returnedAt(1) = MIN_DELAY_MS
    /\ callers[3].waitTime > 0

\* C15: whatever the interleaving, two calls for the same host complete at
\* least 700 ms apart
C15_ConcurrentCallersSpaced ==
    \A p, q \in Callers :
       (sameHostDone(p, q) /\ returnIndex(p) < returnIndex(q))
          => returnedAt(q) - returnedAt(p) >= MIN_DELAY_MS

RateHosts ==
    {hostOf(url) : url \in RateUrls}

\* the instant of the latest completed call for the host, 0 if there is none
lastReturnOn(host) ==
    LET times == {events[i].at : i \in
                    {j \in 1..Len(events) :
                        /\ events[j].kind = "return"
                        /\ hostOf(callers[events[j].caller].url) = host}}
    IN  IF times = {} THEN 0 ELSE CHOOSE t \in times : \A s \in times : s <= t

\* C16: a step of a call for a host leaves the entries of the other hosts as
\* they are, and the wait imposed at the call is the one that the latest
\* completed call for the same host requires, whatever was requested of
\* other hosts
C16_OnlyOwnHost ==
    [][\A p \in Callers :
          callers'[p] # callers[p] =>
             LET host == hostOf(callers'[p].url)
                 last == lastReturnOn(host)
                 due == last + callers'[p].requiredDelay
             IN  /\ \A h \in RateHosts \ {host} :
                       /\ h \in DOMAIN lastRequestByHost' <=> h \in DOMAIN lastRequestByHost
                       /\ h \in DOMAIN lastRequestByHost
                             => lastRequestByHost'[h] = lastRequestByHost[h]
                 /\ callers[p].pc = "idle" =>
                       /\ callers'[p].lastRequest = last
                       /\ callers'[p].waitTime =
                             (IF due > dateNow THEN due - dateNow ELSE 0)]_vars

\* a call for one host has completed; at the same instant a call for the
\* other host went through without a wait and a further call for the first
\* host is waiting
C16_Witness ==
    /\ callers[1].pc = "done"
    /\ callers[2].pc = "done"
    /\ callers[3].pc = "sleep"
    /\ hostOf(callers[1].url) # hostOf(callers[2].url)
    /\ hostOf(callers[3].url) = hostOf(callers[1].url)
    /\ callers[2].now = returnedAt(1)
    /\ callers[2].waitTime = 0
    /\ callers[3].waitTime > 0
    /\ lastRequestByHost[hostOf(callers[1].url)] = returnedAt(1)

----------------------------------------------------------------------------
(* The candidate scorer and selector                                        *)

\* the scores the engine holds: those of the candidate lists of the context
\* and those reported in debug.candidates
heldScores ==
    UNION {{ctx.candidates[f][i].score : i \in 1..Len(ctx.candidates[f])}
              \cup {ctx.output.debug.candidates[f][i].score :
                       i \in 1..Len(ctx.output.debug.candidates[f])} : f \in Fields}

\* C17: every candidate score the engine stores or reports lies between 0
\* and 100, the scores of candidates made from parsed PDFs included
C17_ScoresWithinRange ==
    \A s \in heldScores : 0 <= s /\ s <= 100

\* the call examined last added a keyword that the URL did not match and now
\* matches, and took no match away
keywordAdded ==
    /\ pc = "scored"
    /\ scoring.op = "scoreUrlForField"
    /\ scoring.keyword \notin matchedKeywords(scoring.url, scoring.field)
    /\ scoring.keyword \in matchedKeywords(scoring.changed, scoring.field)
    /\ matchedKeywords(scoring.url, scoring.field)
          \subseteq matchedKeywords(scoring.changed, scoring.field)

judged(candidates) ==
    candidates[CHOOSE i \in 1..Len(candidates) :
                  \A j \in 1..Len(candidates) :
                     \/ candidates[j].score < candidates[i].score
                     \/ candidates[j].score = candidates[i].score /\ i <= j]

\* C19 as stated: 'strong' exactly for a judged score >= 70 with a snippet,
\* 'weak' exactly for a judged score in [40,70), 'missing' with a null URL
\* in every other case
C19_SelectBestAsStated ==
    (pc = "scored" /\ scoring.op = "selectBest" /\ scoring.candidates # <<>>) =>
       LET best == judged(scoring.candidates)
           result == scoring.result
       IN  /\ result.quality = "strong"
                 <=> (best.score >= 70 /\ isTruthy(best.contentSnippet))
           /\ result.quality = "weak" <=> (best.score >= 40 /\ best.score < 70)
           /\ result.quality \notin {"strong", "weak"}
                 => result.quality = "missing" /\ result.url = NULL

\* C19: selectBest judges the highest-scoring candidate, the earliest of
\* equals: 'strong' exactly for a score >= 70 with a snippet, 'weak' exactly
\* for a score >= 40 that is not strong, 'missing' with a null URL below 40;
\* 'missing' with null URL and null evidence for the empty list
C19_SelectBest ==
    (pc = "scored" /\ scoring.op = "selectBest") =>
       IF scoring.candidates = <<>>
       THEN scoring.result = SelectionResult(NULL, "missing",
                                             [title |-> NULL, snippet |-> NULL])
       ELSE LET best == judged(scoring.candidates)
                result == scoring.result
                strong == best.score >= 70 /\ isTruthy(best.contentSnippet)
            IN  /\ result.quality = "strong" <=> strong
                /\ result.quality = "weak" <=> (best.score >= 40 /\ ~strong)
                /\ result.quality = "missing" <=> best.score < 40
                /\ result.url = (IF best.score < 40 THEN NULL ELSE best.url)

\* two candidates of equal score above the strong threshold, the first
\* without a snippet: the first is judged, and the result is 'weak'
C19_Witness ==
    /\ pc = "scored"
    /\ scoring.op = "selectBest"
    /\ Len(scoring.candidates) = 2
    /\ scoring.candidates[1].score = 70
    /\ scoring.candidates[2].score = 70
    /\ scoring.candidates[1].url # scoring.candidates[2].url
    /\ scoring.candidates[1].contentSnippet = NULL
    /\ isTruthy(scoring.candidates[2].contentSnippet)
    /\ scoring.result.quality = "weak"
    /\ scoring.result.url = scoring.candidates[1].url

\* C20: in a returned output, a field whose quality SELECT took from the
\* best candidate is 'strong' only if that candidate is not one that was
\* only seen as a link
C20_StrongNeedsOpenedContent ==
    \A f \in Fields :
       (/\ pc = "returned"
        /\ ctx.state = "DONE"
        /\ output.quality[f] = "strong"
        /\ ~(f = "schedule" /\ scheduleFromEntries))
          => ctx.candidates[f][1].source # "link"



----------------------------------------------------------------------------
(* The schedule extractor (agent/tools/extract-schedule.ts)                 *)

\* the matches of one direction, in the order the loops met them
metOf(type) ==
    SelectSeq(extraction.result.rawMatches, LAMBDA m : m.type = type)

\* the entry is what the first match with its date produced
firstMetKept(entry, met) ==
    \E k \in 1..Len(met) :
        /\ met[k].date = entry.date
        /\ \A j \in 1..(k - 1) : met[j].date # entry.date
        /\ entry.time = met[k].time
        /\ entry.description = sliceTo(met[k].context, 200)

\* C21: in the result of one extractScheduleFromText call, within each
\* direction no two entries have the same date (so at most one has a null
\* date), the entries are in ascending order of the date string with a null
\* date first, and the entry kept for a date is the first one met
C21_ExtractedEntriesOrdered ==
    (pc = "extracted" /\ extraction.op = "extractScheduleFromText") =>
        \A type \in {"build_up", "tear_down"} :
            /\ \A i, j \in 1..Len(extraction.result[type]) :
                  i < j => /\ extraction.result[type][i].date
                                # extraction.result[type][j].date
                           /\ comesBefore(dateKey(extraction.result[type][i].date),
                                          dateKey(extraction.result[type][j].date))
            /\ \A i \in 1..Len(extraction.result[type]) :
                  firstMetKept(extraction.result[type][i], metOf(type))

\* a text that mentions the build-up twice with the same date and different
\* times, the mention met second standing first in the text: one entry, with
\* the time of the mention met first
C21_Witness ==
    /\ pc = "extracted"
    /\ extraction.op = "extractScheduleFromText"
    /\ Len(metOf("build_up")) = 2
    /\ metOf("build_up")[1].date = metOf("build_up")[2].date
    /\ metOf("build_up")[1].date # nullText
    /\ metOf("build_up")[1].time = <<"1","0",":","0","0">>
    /\ metOf("build_up")[2].time = <<"0","7",":","0","0">>
    /\ Len(extraction.result.build_up) = 1
    /\ extraction.result.build_up[1].time = <<"1","0",":","0","0">>

\* the date written in the context, as YYYY-MM-DD
writtenDate ==
    fourDigits(extraction.written.year) \o <<"-">>
        \o twoDigits(extraction.written.month) \o <<"-">>
        \o twoDigits(extraction.written.day)

\* C23: a date written in one of the four forms of DATE_PATTERNS (29.01.2026,
\* 2026-01-29, January 29, 2026 or 29 January 2026, with any of the three
\* separators and with or without leading zeros) is extracted as YYYY-MM-DD
\* with two-digit month and day, the same day, month and year
C23_DateNormalized ==
    (/\ pc = "extracted"
     /\ extraction.op = "extractDateTimeFromContext"
     /\ extraction.written.hasDate)
        => extraction.extracted.date = writtenDate

\* "January 29, 2026" is extracted as 2026-01-29
C23_Witness ==
    /\ pc = "extracted"
    /\ extraction.op = "extractDateTimeFromContext"
    /\ extraction.text = ContextKeyword
           \o <<"J","a","n","u","a","r","y"," ","2","9",","," ","2","0","2","6">>
    /\ extraction.extracted.date = <<"2","0","2","6","-","0","1","-","2","9">>

\* HH:MM with 00 <= HH <= 23 and 00 <= MM <= 59
isTimeOfDay(time) ==
    /\ Len(time) = 5
    /\ time[3] = ":"
    /\ \A k \in {1, 2, 4, 5} : time[k] \in Digits
    /\ parseInt(SubSeq(time, 1, 2)) <= 23
    /\ parseInt(SubSeq(time, 4, 5)) <= 59

\* C24: the time the extractor gives is null or the time of day written in
\* the context, as HH:MM of the 24-hour clock; a context with a date and
\* no time of day gives a null time; and every entry of
\* extractScheduleFromText has a null time or an HH:MM in range
C24_TimeIsWrittenTime ==
    /\ (pc = "extracted" /\ extraction.op = "extractDateTimeFromContext") =>
          \/ extraction.extracted.time = nullText
          \/ /\ extraction.written.hasTime
             /\ isTimeOfDay(extraction.extracted.time)
             /\ extraction.extracted.time
                   = twoDigits(extraction.written.hour) \o <<":">>
                        \o twoDigits(extraction.written.minute)
    /\ (pc = "extracted" /\ extraction.op = "extractScheduleFromText") =>
          \A type \in {"build_up", "tear_down"} :
             \A i \in 1..Len(extraction.result[type]) :
                \/ extraction.result[type][i].time = nullText
                \/ isTimeOfDay(extraction.result[type][i].time)

----------------------------------------------------------------------------
(* The schedule of the output (runPdfParseState)                            *)

\* the characters of the dates the PDFs of the model hold
DateChars(date) ==
    CASE date = "2026-01-29" -> <<"2","0","2","6","-","0","1","-","2","9">>

\* the entries are in ascending order of date, null dates first
sortedByDate(entries) ==
    \A i, j \in 1..Len(entries) :
        i < j => \/ entries[i].date = NULL
                 \/ /\ entries[j].date # NULL
                    /\ ~comesBefore(DateChars(entries[j].date),
                                    DateChars(entries[i].date))

\* C22: in the returned output, schedule.build_up and schedule.tear_down
\* are each in ascending order of date with null dates first, however many
\* parsed PDFs contributed entries
C22_ScheduleSorted ==
    pc = "returned" =>
        /\ sortedByDate(output.schedule.build_up)
        /\ sortedByDate(output.schedule.tear_down)

\* C30: in the returned output, within each of schedule.build_up and
\* schedule.tear_down no two entries have the same non-null date and at most
\* one entry has a null date, however many PDFs were merged
C30_OneEntryPerDate ==
    pc = "returned" =>
        \A entries \in {output.schedule.build_up, output.schedule.tear_down} :
            \A i, j \in 1..Len(entries) :
                i < j => entries[i].date # entries[j].date

----------------------------------------------------------------------------
(* runDiscovery calls of one process                                        *)

\* C25: runDiscovery calls that execute concurrently do not change the
\* outcome of one another's steps: every page open of a run has the result
\* it has when the run is the only one, which for pages that the web serves
\* is a success
C25_RunsIsolated ==
    \A r \in Runs :
        \A k \in 1..Len(runs[r].results) : runs[r].results[k] = "ok"

----------------------------------------------------------------------------
(* Failed page opens and repeated fetches                                   *)

\* the reasons of the entries that a failed page open pushes onto
\* ctx.blockedUrls; these entries carry the HTTP status
OpenFailureReasons ==
    {"Failed to open", "Access denied"}

\* ctx.blockedUrls holds the page with the status its open ended with
blockedWithStatus(url, status) ==
    \E k \in 1..Len(ctx.blockedUrls) :
        /\ ctx.blockedUrls[k].url = url
        /\ ctx.blockedUrls[k].reason \in OpenFailureReasons
        /\ ctx.blockedUrls[k].status = status

\* C26: every page open that fails with an HTTP status >= 400, in SEARCH,
\* ENTRY or DOWNLOADS, is recorded in the blocked URLs together with its
\* status and a reason
C26_HttpFailuresBlocked ==
    (local.result.url # NULL /\ ~local.result.success /\ local.result.status >= 400)
        => blockedWithStatus(local.result.url, local.result.status)

\* the URLs passed to openPage so far: each call is followed by a push onto
\* visited_urls, and nothing else is pushed there
openPageCalls ==
    ctx.output.debug.visited_urls

\* the URLs passed to downloadFile so far: a call ends in downloaded_files
\* or, failed, in ctx.blockedUrls
downloadFileCalls ==
    LET failed == SelectSeq(ctx.blockedUrls,
                            LAMBDA b : b.reason = "Download failed")
        downloaded == ctx.output.debug.downloaded_files
    IN  [k \in 1..Len(downloaded) |-> downloaded[k].url]
            \o [k \in 1..Len(failed) |-> failed[k].url]

noRepeats(urls) ==
    \A i, j \in 1..Len(urls) : i # j => urls[i] # urls[j]

----------------------------------------------------------------------------
(* The downloaded files and PDF_PARSE                                       *)

\* some downloaded file is a PDF
pdfDownloaded ==
    \E k \in 1..Len(output.debug.downloaded_files) :
        output.debug.downloaded_files[k].isPdfPath

\* runPdfParseState ran to its end: the file loop handled every downloaded
\* file and the handler moved the machine on
pdfParseCompleted ==
    stateIndex(ctx.state) > stateIndex("PDF_PARSE")

\* C28: every file that DOWNLOADS downloaded successfully as a PDF is parsed
\* by PDF_PARSE before the run returns, also when the number of download
\* attempts is exactly the maximum of 15; stated for the runs that end
\* within the runtime limit and below the page-open limit
C28_DownloadedPdfsParsed ==
    (/\ pc = "returned"
     /\ clock <= MAX_RUNTIME_MIN
     /\ ctx.pageOpens < request.maxPageOpens
     /\ pdfDownloaded)
        => pdfParseCompleted

----------------------------------------------------------------------------
(* SELECT and the schedule                                                  *)

\* C29: after SELECT, if the output holds at least one schedule entry then
\* quality.schedule is 'strong' when some entry has a date and 'weak'
\* otherwise, and documents.schedule_page_url is as it was before SELECT;
\* if both schedule sequences are empty, quality.schedule and
\* schedule_page_url are those of the selector's result
C29_ScheduleAfterSelect ==
    [][pc = "SELECT" =>
          LET result == selectBest(ctx.candidates["schedule"])
          IN  IF hasEntries(ctx'.output)
              THEN /\ ctx'.output.quality["schedule"] =
                         IF hasDatedEntry' THEN "strong" ELSE "weak"
                   /\ ctx'.output.documents.schedule_page_url =
                         ctx.output.documents.schedule_page_url
              ELSE /\ ctx'.output.quality["schedule"] = result.quality
                   /\ ctx'.output.documents.schedule_page_url = result.url]_vars

\* SELECT ran on entries none of which has a date, and the selector judged
\* the schedule candidates differently: a quality other than weak, or a URL
C29_Witness ==
    /\ ctx.state = "DONE"
    /\ hasEntries(output)
    /\ ~hasDatedEntry
    /\ output.quality["schedule"] = "weak"
    /\ output.documents.schedule_page_url = NULL
    /\ selectBest(ctx.candidates["schedule"]).url # NULL

\* SELECT ran without entries and the schedule page is the selector's
selectorScheduleReached ==
    /\ ctx.state = "DONE"
    /\ ~hasEntries(output)
    /\ output.documents.schedule_page_url # NULL


----------------------------------------------------------------------------
(* The domain guard in the orchestrator                                     *)

\* the guard rejects the URL as a page of a foreign fair
foreignFair(url) ==
    LET domainCheck == guard(ctx, url)
    IN  ~domainCheck.allowed /\ domainCheck.type = "foreign-fair"

\* ctx.blockedUrls holds a record of a guard rejection of the URL
blockedByGuard(url) ==
    \E k \in 1..Len(ctx.blockedUrls) :
        /\ ctx.blockedUrls[k].url = url
        /\ ctx.blockedUrls[k].reason = guard(ctx, url).reason

\* the URLs the handler in progress has just passed to the guard: the
\* results of the resource query just made, the links of the entry page
\* or of the download centre just opened
justGuarded ==
    LET linksOf(u) == {PageLinks(FinalUrl(u))[k].href :
                          k \in 1..Len(PageLinks(FinalUrl(u)))}
        opened == local.result.url # NULL /\ local.result.success
    IN  CASE pc = "SEARCH:resources" /\ local.q > 1 ->
                LET term == searchTerms[local.q \div 2]
                    results == webSearch(term.kind, 1 + (local.q % 2), 3)
                IN  {results[k].url : k \in 1..Len(results)}
          [] pc = "ENTRY:page" /\ opened -> linksOf(local.result.url)
          [] pc = "DOWNLOADS:file" /\ opened ->
                {u \in linksOf(local.result.url) : isLikelyPdf(UrlText(u))}
          [] OTHER -> {}

\* C31: a URL that the domain guard rejects is recorded in the blocked URLs
\* exactly when the rejection type is foreign-fair, in whichever state
\* (SEARCH, ENTRY, DOWNLOADS) the URL was discovered; a rejection of another
\* type adds no record
C31_ForeignFairRecorded ==
    /\ \A url \in justGuarded : foreignFair(url) => blockedByGuard(url)
    /\ \A url \in UrlIds : blockedByGuard(url) => foreignFair(url)

\* checkDomain allows the URL with respect to the official domain the
\* context has resolved and the fair name of the run
allowedUrl(c, url) ==
    checkDomain(UrlText(url), c.officialDomain,
                FairNameText(request.fair_name)).allowed

\* the URLs of the PDF pool, of the download attempts, of the candidates
\* and of the documents of the output
usedUrls ==
    {ctx.pdfUrls[k] : k \in 1..Len(ctx.pdfUrls)}
        \cup {downloadFileCalls[k] : k \in 1..Len(downloadFileCalls)}
        \cup UNION {{ctx.candidates[f][k].url : k \in 1..Len(ctx.candidates[f])} :
                       f \in Fields}
        \cup (({output.documents[DocumentKey(f)] : f \in Fields}
                   \cup {output.documents.downloads_overview_url}) \ {NULL})

\* C32: every URL that enters the PDF pool, is downloaded or becomes a
\* candidate, and so every non-null documents URL of the output, is one
\* that the domain guard allows with respect to the resolved official
\* domain and the fair name: each step adds only allowed URLs, and the
\* official domain, once resolved, stays as it is
C32_OnlyAllowedUrls ==
    [][/\ \A url \in usedUrls' \ usedUrls : allowedUrl(ctx', url)
       /\ ctx.officialDomain # NoDomain =>
              ctx'.officialDomain = ctx.officialDomain]_vars

\* a returned run that met URLs the guard denies (a foreign fair's PDF in
\* the search results and on the home page, an external PDF on an entry
\* page), pooled and downloaded PDFs and chose documents
C32_Witness ==
    /\ pc = "returned"
    /\ ctx.state = "DONE"
    /\ blockedByGuard("foreign")
    /\ contains(ctx.output.debug.visited_urls, "exh")
    /\ ctx.downloads > 0
    /\ \E f \in Fields : output.documents[DocumentKey(f)] # NULL
    /\ \E url \in usedUrls : guard(ctx, url).type = "third-party-platform"

----------------------------------------------------------------------------
(* The order of the downloads                                               *)

\* the priority of a pool URL: 100 for a URL that is a candidate of some
\* field, plus the keyword bonuses of its text
priorityOf(c, url) ==
    (IF \E f \in Fields : \E k \in 1..Len(c.candidates[f]) :
            c.candidates[f][k].url = url
     THEN 100 ELSE 0) + keywordPriority(url)

\* the URLs downloadFile has been called with
attempted ==
    {downloadFileCalls[k] : k \in 1..Len(downloadFileCalls)}

\* list holds the URLs of the pool in non-increasing priority order, equal
\* priorities in pool order, cut off after the first 15
prioritized(c, pool, list) ==
    LET place(url) == CHOOSE k \in 1..Len(pool) : pool[k] = url
        listed == {list[k] : k \in 1..Len(list)}
    IN  /\ Len(list) = Min(Len(pool), MAX_DOWNLOADS)
        /\ \A k \in 1..Len(list) : contains(pool, list[k])
        /\ \A j, k \in 1..Len(list) :
              j < k =>
                \/ priorityOf(c, list[j]) > priorityOf(c, list[k])
                \/ /\ priorityOf(c, list[j]) = priorityOf(c, list[k])
                   /\ place(list[j]) < place(list[k])
        /\ Len(list) > 0 =>
              \A k \in 1..Len(pool) :
                  pool[k] \notin listed =>
                      priorityOf(c, pool[k]) <= priorityOf(c, list[Len(list)])

\* C33: the download attempts of a run are made in non-increasing priority
\* order over the de-duplicated PDF pool, equal priorities in pool order,
\* and are at most 15, so that no pool URL is attempted while a pool URL of
\* strictly higher priority is left unattempted: the list the download loop
\* starts with is the pool in that order, and the n-th attempt is for the
\* n-th URL of the list
C33_DownloadsByPriority ==
    [][/\ (pc = "DOWNLOADS" /\ pc' = "DOWNLOADS:file") =>
              prioritized(ctx', unique(ctx'.pdfUrls), local'.list)
       /\ ctx'.downloads # ctx.downloads =>
              /\ ctx'.downloads = ctx.downloads + 1
              /\ ctx'.downloads <= MAX_DOWNLOADS
              /\ ctx'.pdfUrls = ctx.pdfUrls
              /\ ctx'.candidates = ctx.candidates
              /\ attempted' \ attempted = {local.list[ctx'.downloads]}]_vars

\* fifteen downloads were made from a pool of more PDFs, in which a PDF of
\* higher priority stands behind one of lower priority
C33_Witness ==
    /\ pc = "DOWNLOADS:file"
    /\ ctx.downloads = MAX_DOWNLOADS
    /\ Len(unique(ctx.pdfUrls)) > MAX_DOWNLOADS
    /\ \E j, k \in 1..Len(unique(ctx.pdfUrls)) :
          /\ j < k
          /\ priorityOf(ctx, unique(ctx.pdfUrls)[j])
                < priorityOf(ctx, unique(ctx.pdfUrls)[k])

----------------------------------------------------------------------------
(* Redirects and the cache                                                  *)

\* C34: openPage reports the post-redirect final URL, also when the page is
\* served from the cache: a successful open of a URL yields the finalUrl of
\* the network open of that URL, which filled the cache, and the official
\* domain a run resolves is the domain of a post-redirect URL
C34_FinalUrlFromCache ==
    /\ (local.result.url # NULL /\ local.result.success) =>
          local.result.finalUrl = FinalUrl(local.result.url)
    /\ ctx.officialUrl # NULL =>
          ctx.officialDomain = getDomain(UrlText(FinalUrl(ctx.officialUrl)))

----------------------------------------------------------------------------
(* scoreFreshness                                                           *)

\* the current or the next year occurs in the text
hasYear(s) ==
    includes(s, CurrentYear) \/ includes(s, NextYear)

\* C35: scoreFreshness adds 5 when the current or next year appears in the
\* URL and, independently, 5 when it appears in the content: the content
\* bonus is granted whenever the content contains such a year, whatever the
\* URL is and wherever in the URL a year occurs
C35_FreshnessIndependent ==
    (pc = "scored" /\ scoring.op = "scoreFreshness") =>
        scoring.after = (IF hasYear(scoring.url) THEN 5 ELSE 0)
                          + (IF hasYear(scoring.content) THEN 5 ELSE 0)

----------------------------------------------------------------------------
(* The messages of the Claude agent loop                                    *)

\* C36: in every request the agent loop sends to the model the message list
\* alternates roles: it never holds two consecutive user messages, the
\* iteration at which the wrap-up warning is pushed included
C36_RolesAlternate ==
    agent.pc = "create" =>
        \A k \in 1..(Len(agent.messages) - 1) :
            ~(agent.messages[k].role = "user" /\ agent.messages[k + 1].role = "user")

----------------------------------------------------------------------------
(* The email draft of the returned output                                   *)

\* the fields of quality missing in an output
missingFields(out) ==
    {f \in Fields : out.quality[f] = "missing"}

\* the word of EmailDraft.needed that stands for a field
neededName(field) ==
    IF field = "exhibitor_manual" THEN "manual"
    ELSE IF field = "exhibitor_directory" THEN "directory"
    ELSE field

\* C37: in every returned output email_draft_if_missing is null exactly when
\* no field has quality missing; otherwise its needed list holds exactly the
\* fields of quality missing, each once
C37_DraftNamesMissing ==
    pc = "returned" =>
        LET draft == output.email_draft_if_missing
            missing == missingFields(output)
        IN  /\ (draft = NoEmailDraft) <=> (missing = {})
            /\ {draft.needed[k] : k \in 1..Len(draft.needed)}
                  = {neededName(f) : f \in missing}
            /\ Len(draft.needed) = Cardinality(missing)

\* a run returned with some fields found and others missing
C37_Witness ==
    /\ pc = "returned"
    /\ missingFields(output) \notin {{}, Fields}
    /\ output.email_draft_if_missing # NoEmailDraft

\* a run returned with every field found
C37_NothingMissing ==
    /\ pc = "returned"
    /\ missingFields(output) = {}

----------------------------------------------------------------------------
(* The download centre in the returned output                               *)

\* C38: the returned output reports the download centre the run designated:
\* documents.downloads_overview_url is the designated URL, and null only if
\* none was designated
C38_DownloadCentreReported ==
    pc = "returned" =>
        output.documents.downloads_overview_url = ctx.downloadCenterUrl

----------------------------------------------------------------------------
(* The fair name and the verdict of the guard                               *)

\* the host of the checked URL names a third-party platform
onPlatform ==
    isThirdPartyPlatform(getDomain(call.url))

\* C39: the fair name influences the allowed verdict of checkDomain only for
\* URLs whose host is a third-party platform: off the platforms, the call
\* with the same URL and official domain and any other fair name gives the
\* same allowed.  Both copies of the guard are examined
C39_FairNameOnlyOnPlatforms ==
    (pc = "checked" /\ ~onPlatform) =>
        \A fairName \in GuardNames :
            /\ checkDomain(call.url, call.officialDomain, fairName).allowed
                  = verdict.allowed
            /\ checkDomainSeg(call.url, call.officialDomain, fairName).allowed
                  = verdictSeg.allowed

\* a check off the platforms whose verdict another fair name changes in
\* type, and not in allowed
C39_Witness ==
    /\ pc = "checked"
    /\ ~onPlatform
    /\ \E fairName \in GuardNames :
          /\ checkDomain(call.url, call.officialDomain, fairName).type # verdict.type
          /\ checkDomainSeg(call.url, call.officialDomain, fairName).type
                # verdictSeg.type

\* a check on a platform whose allowed another fair name changes
C39_NameDecidesOnPlatform ==
    /\ pc = "checked"
    /\ onPlatform
    /\ \E fairName \in GuardNames :
          checkDomain(call.url, call.officialDomain, fairName).allowed # verdict.allowed

====
